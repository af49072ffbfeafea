---------------------------- MODULE TokenRenewal ----------------------------
(***************************************************************************)
(* The credentials of internal/vaultwarden: APIClient's access token,      *)
(* refresh token, expiry and symmetric key, as concurrent calls of         *)
(* APIClient.Sync renew them against a server that revokes sessions, lets  *)
(* tokens expire and rotates the account's key at any moment.              *)
(*                                                                         *)
(* Every request is a step of its own, and a token that was minted is in   *)
(* use only one step later: server and other callers act in between.  What *)
(* a call does with a payload it was given is VaultSync's subject: here a  *)
(* call ends when it has one.                                              *)
(*                                                                         *)
(* In the service syncMu lets one call run at a time; APIClient itself     *)
(* promises (on renewMu and in its tests) to serve concurrent ones.        *)
(***************************************************************************)
EXTENDS Naturals

CONSTANTS
    Callers,        \* goroutines calling APIClient.Sync
    Tokens,         \* access tokens; a refresh token has the name of the
                    \* access token it came with.  A token nobody remembers
                    \* any more lends its name to the next one minted.
    NoToken,        \* the empty string
    MaxKey,         \* bound: versions of the account's key
    GivesGrant,     \* whether a token response brings a refresh token:
                    \* always {TRUE}, never {FALSE}, sometimes BOOLEAN
    ZombieGrants    \* the server may go on honouring the refresh grant of a
                    \* revoked session, minting tokens its API rejects

ASSUME TokenAssumption == Tokens \subseteq Nat /\ NoToken \notin Tokens
ASSUME KeyAssumption == MaxKey \in Nat \ {0}
ASSUME FlagAssumption ==
    ZombieGrants \in BOOLEAN /\ GivesGrant \subseteq BOOLEAN

VARIABLES
    (* the server *)
    calm,           \* it no longer fails, revokes, rotates or expires early
    live,           \* the access tokens its API accepts
    grants,         \* the refresh tokens it honours
    rejects,        \* what the refresh grant mints, its API rejects
    epoch,          \* the version of the account's key (and its KDF settings)
    (* APIClient, under mu *)
    accessToken, refreshToken, expiring, symKey,
    renewMu,
    (* the calls *)
    apiKeyLogin,    \* client id and secret are configured
    started,        \* Client.Initialize has succeeded
    pc,
    held,           \* the token and key a call has read under mu
    retried,        \* retriedAfterRenewal
    master,         \* the key version the derived master key belongs to
    reply           \* the token response being handled, with its key

server == <<calm, live, grants, rejects, epoch>>
credentials == <<accessToken, refreshToken, expiring, symKey>>
client == <<apiKeyLogin, started>>
calls == <<held, retried, master, reply>>
vars == <<server, credentials, renewMu, client, pc, calls>>

Keys == 0..MaxKey       \* 0: no key
TokenOrNone == Tokens \cup {NoToken}
NoReply == [token |-> NoToken, grant |-> NoToken, key |-> 0]

Init ==
    /\ calm = FALSE
    /\ live = {} /\ grants = {} /\ rejects = FALSE /\ epoch = 1
    /\ accessToken = NoToken /\ refreshToken = NoToken
    /\ expiring = TRUE /\ symKey = 0
    /\ renewMu = FALSE
    /\ apiKeyLogin \in BOOLEAN /\ started = FALSE
    /\ pc = [w \in Callers |-> "idle"]
    /\ held = [w \in Callers |-> [token |-> NoToken, key |-> 0]]
    /\ retried = [w \in Callers |-> FALSE]
    /\ master = [w \in Callers |-> 0]
    /\ reply = [w \in Callers |-> NoReply]

Goto(w, step) == pc' = [pc EXCEPT ![w] = step]

(***************************************************************************)
(* The server and the clock.                                               *)
(***************************************************************************)
RevokeSession ==
    /\ ~calm
    /\ live' = {}
    /\ \/ grants' = {} /\ UNCHANGED rejects
       \/ ZombieGrants /\ rejects' = TRUE /\ UNCHANGED grants
    /\ UNCHANGED <<calm, epoch, credentials, renewMu, pc, calls, client>>

RotateKey ==
    /\ ~calm /\ epoch < MaxKey
    /\ epoch' = epoch + 1
    /\ live' = {} /\ grants' = {}
    /\ UNCHANGED <<calm, rejects, credentials, renewMu, pc, calls, client>>

(* 60 s before a token's expiry the client starts to renew it; from then   *)
(* on the server may consider it expired.                                  *)
ClockPasses ==
    /\ accessToken # NoToken /\ ~expiring
    /\ expiring' = TRUE
    /\ UNCHANGED <<server, accessToken, refreshToken, symKey, renewMu, pc,
                   calls, client>>

TokenExpires ==
    /\ ~calm /\ expiring /\ accessToken \in live
    /\ live' = live \ {accessToken}
    /\ UNCHANGED <<calm, grants, rejects, epoch, credentials, renewMu, pc,
                   calls, client>>

CalmsDown ==
    /\ ~calm
    /\ calm' = TRUE
    /\ UNCHANGED <<live, grants, rejects, epoch, credentials, renewMu, pc,
                   calls, client>>

(* Any request may fail: no connection, a timeout, an HTTP error.          *)
Fails == ~calm

RememberedGrants == {refreshToken} \cup {reply[w].grant : w \in Callers}
Remembered ==
    {accessToken} \cup {held[w].token : w \in Callers}
        \cup {reply[w].token : w \in Callers} \cup RememberedGrants

(* t is the next token; accepted tells whether the API will take it.       *)
Mint(t, accepted) ==
    /\ t \in Tokens \ Remembered
    /\ \A u \in Tokens \ Remembered : t <= u
    /\ live' = IF accepted THEN live \cup {t} ELSE live

(* The refresh token of a response whose access token is t.                *)
GrantWith(t) == {IF given THEN t ELSE NoToken : given \in GivesGrant}

(* The server's side of a step after which the client may remember fewer   *)
(* tokens: it does nothing, and the names of the others are free again.    *)
ServerIdles ==
    /\ live' = live \cap Remembered'
    /\ grants' = grants \cap RememberedGrants'
    /\ UNCHANGED <<calm, rejects, epoch>>

(***************************************************************************)
(* Sync: EnsureValidToken, one snapshot of token and key, the request.     *)
(***************************************************************************)
EnsureValidToken(w) ==
    /\ pc[w] = "ensure" \/ (pc[w] = "idle" /\ started)
    /\ held' = [held EXCEPT ![w].token = accessToken]
    /\ Goto(w, IF expiring THEN "renew" ELSE "snapshot")
    /\ UNCHANGED <<credentials, renewMu, retried, master, reply, client>>
    /\ ServerIdles

(* The key is read again together with the token, also for the retry.      *)
(* Mutant: the retry keeps the key the call started with.                  *)
FirstKey(w) == IF retried[w] THEN held[w].key ELSE symKey

CurrentKey(w) == symKey

Snapshot(w) ==
    /\ pc[w] = "snapshot"
    /\ held' = [held EXCEPT ![w] = [token |-> accessToken,
                                    key |-> CurrentKey(w)]]
    /\ Goto(w, "sync")
    /\ UNCHANGED <<credentials, renewMu, retried, master, reply, client>>
    /\ ServerIdles

SyncAnswered(w) ==
    /\ pc[w] = "sync" /\ held[w].token \in live
    /\ Goto(w, "ok")
    /\ UNCHANGED <<server, credentials, renewMu, calls, client>>

SyncUnauthorized(w) ==
    /\ pc[w] = "sync" /\ held[w].token \notin live
    /\ Goto(w, IF retried[w] THEN "rejected" ELSE "renew")
    /\ retried' = [retried EXCEPT ![w] = TRUE]
    /\ UNCHANGED <<server, credentials, renewMu, held, master, reply,
                   client>>

(* The renewed token is rejected as well: the expiry is zeroed.            *)
RetryRejected(w) ==
    /\ pc[w] = "rejected"
    /\ expiring' = TRUE
    /\ Goto(w, "err")
    /\ UNCHANGED <<server, accessToken, refreshToken, symKey, renewMu, calls,
                   client>>

SyncFails(w) ==
    /\ pc[w] = "sync" /\ Fails
    /\ Goto(w, "err")
    /\ UNCHANGED <<server, credentials, renewMu, calls, client>>

SyncReturns(w) ==
    /\ pc[w] \in {"ok", "err"}
    /\ started' = (started \/ pc[w] = "ok")
    /\ Goto(w, "idle")
    /\ held' = [held EXCEPT ![w] = [token |-> NoToken, key |-> 0]]
    /\ retried' = [retried EXCEPT ![w] = FALSE]
    /\ UNCHANGED <<credentials, renewMu, apiKeyLogin, master, reply>>
    /\ ServerIdles

(***************************************************************************)
(* refreshOrReauthenticate, under renewMu.  A caller whose token is no     *)
(* longer the current one relies on the renewal that replaced it.          *)
(***************************************************************************)
RenewalSteps == {"refresh", "refreshed", "prelogin", "login", "profile",
                 "publish"}

(* Mutant: every caller renews. *)
NeverRenewed(w) == FALSE

RenewMuFree == ~renewMu

AlreadyRenewed(w) == accessToken # held[w].token

LockRenewMu(w) ==
    /\ pc[w] = "renew" /\ RenewMuFree
    /\ IF AlreadyRenewed(w)
       THEN Goto(w, "snapshot") /\ UNCHANGED renewMu
       ELSE Goto(w, "refresh") /\ renewMu' = TRUE
    /\ UNCHANGED <<server, credentials, calls, client>>

(* The deferred unlock.  Mutant: a login that fails early returns without  *)
(* it.                                                                     *)
UnlockUnlessLoginFails(w) ==
    renewMu' = (renewMu /\ pc[w] \in {"prelogin", "login", "profile"})

UnlockRenewMu(w) == renewMu' = FALSE

(* RefreshAccessToken.  Without a refresh token, on a refused grant, on an *)
(* answer without an access token and on any failure: full login.          *)
RefreshGranted(w) ==
    /\ pc[w] = "refresh" /\ refreshToken \in grants
    /\ \E t \in Tokens :
          /\ Mint(t, ~rejects)
          /\ \E g \in GrantWith(t) :
                /\ grants' = grants \cup ({g} \ {NoToken})
                /\ reply' = [reply EXCEPT ![w] =
                                [token |-> t, grant |-> g, key |-> 0]]
    /\ Goto(w, "refreshed")
    /\ UNCHANGED <<calm, rejects, epoch, credentials, renewMu, held,
                   retried, master, client>>

(* Mutants: an answer without an access token is taken for a renewal; a    *)
(* refused refresh ends the call without a login.                          *)
RefreshTakesAnything(w) ==
    /\ pc[w] = "refresh" /\ (Fails \/ refreshToken \notin grants)
    /\ Goto(w, IF Fails THEN "refreshed" ELSE "prelogin")
    /\ reply' = [reply EXCEPT ![w] = NoReply]
    /\ UNCHANGED <<credentials, renewMu, held, retried, master, client>>
    /\ ServerIdles

RefreshIsFinal(w) ==
    /\ \/ pc[w] = "refresh" /\ (Fails \/ refreshToken \notin grants)
       \/ pc[w] = "refreshed" /\ Fails
    /\ Goto(w, "err")
    /\ UnlockRenewMu(w)
    /\ reply' = [reply EXCEPT ![w] = NoReply]
    /\ UNCHANGED <<credentials, held, retried, master, client>>
    /\ ServerIdles

RefreshFails(w) ==
    /\ \/ pc[w] = "refresh" /\ (Fails \/ refreshToken \notin grants)
       \/ pc[w] = "refreshed" /\ Fails
    /\ Goto(w, "prelogin")
    /\ reply' = [reply EXCEPT ![w] = NoReply]
    /\ UNCHANGED <<credentials, renewMu, held, retried, master, client>>
    /\ ServerIdles

(* The key stays: a refresh does not change the account's.  A response     *)
(* without a refresh token leaves the old one in place.                    *)
RefreshAccessToken(w) ==
    /\ pc[w] = "refreshed"
    /\ accessToken' = reply[w].token
    /\ refreshToken' = IF reply[w].grant # NoToken
                       THEN reply[w].grant ELSE refreshToken
    /\ expiring' = FALSE
    /\ UnlockRenewMu(w)
    /\ reply' = [reply EXCEPT ![w] = NoReply]
    /\ Goto(w, "snapshot")
    /\ UNCHANGED <<symKey, held, retried, master, client>>
    /\ ServerIdles

(***************************************************************************)
(* Authenticate: prelogin, login, the key from the profile if the login    *)
(* did not bring it, and one step that publishes everything.  Besides      *)
(* refreshOrReauthenticate, Client.Initialize calls it, without a lock:    *)
(* in each attempt to start, before the first Sync of the attempt.         *)
(***************************************************************************)
Initialize(w) ==
    /\ ~started /\ \A v \in Callers : pc[v] = "idle"
    /\ Goto(w, "prelogin")
    /\ UNCHANGED <<server, credentials, renewMu, calls, client>>

Prelogin(w) ==
    /\ pc[w] = "prelogin"
    /\ master' = [master EXCEPT ![w] = epoch]
    /\ Goto(w, "login")
    /\ UNCHANGED <<server, credentials, renewMu, held, retried, reply,
                   client>>

(* The password grant proves the master key and brings the account's key;  *)
(* the client credentials grant does neither.                              *)
LoginGranted(w) ==
    /\ pc[w] = "login"
    /\ apiKeyLogin \/ master[w] = epoch
    /\ \E t \in Tokens :
          /\ Mint(t, TRUE)
          /\ \E g \in GrantWith(t) :
                /\ grants' = grants \cup ({g} \ {NoToken})
                /\ reply' = [reply EXCEPT ![w] =
                                [token |-> t, grant |-> g,
                                 key |-> IF apiKeyLogin THEN 0 ELSE epoch]]
    /\ rejects' = FALSE
    /\ Goto(w, IF apiKeyLogin THEN "profile" ELSE "publish")
    /\ UNCHANGED <<calm, epoch, credentials, renewMu, held, retried,
                   master, client>>

fetchProfileKey(w) ==
    /\ pc[w] = "profile" /\ reply[w].token \in live
    /\ reply' = [reply EXCEPT ![w].key = epoch]
    /\ Goto(w, "publish")
    /\ UNCHANGED <<server, credentials, renewMu, held, retried, master,
                   client>>

(* The user key is encrypted under the master key of its own version.      *)
DecryptsKey(w) == reply[w].key = master[w]

AuthenticateFails(w) ==
    /\ \/ pc[w] \in {"prelogin", "login", "profile"} /\ Fails
       \/ pc[w] = "login" /\ ~apiKeyLogin /\ master[w] # epoch
       \/ pc[w] = "profile" /\ reply[w].token \notin live
       \/ pc[w] = "publish" /\ (Fails \/ ~DecryptsKey(w))
    /\ UnlockRenewMu(w)
    /\ master' = [master EXCEPT ![w] = 0]
    /\ reply' = [reply EXCEPT ![w] = NoReply]
    /\ Goto(w, "err")
    /\ UNCHANGED <<credentials, held, retried, client>>
    /\ ServerIdles

Authenticate(w) ==
    /\ pc[w] = "publish" /\ DecryptsKey(w)
    /\ accessToken' = reply[w].token
    /\ refreshToken' = reply[w].grant
    /\ expiring' = FALSE
    /\ symKey' = reply[w].key
    /\ master' = [master EXCEPT ![w] = 0]
    /\ reply' = [reply EXCEPT ![w] = NoReply]
    /\ UnlockRenewMu(w)
    /\ Goto(w, IF renewMu THEN "snapshot" ELSE "ensure")
    /\ UNCHANGED <<held, retried, client>>
    /\ ServerIdles

Environment == RevokeSession \/ RotateKey \/ TokenExpires
               \/ ClockPasses \/ CalmsDown

(* What the call does next, once it was made.                              *)
Step(w) ==
    \/ Snapshot(w) \/ SyncAnswered(w) \/ SyncUnauthorized(w) \/ SyncFails(w)
    \/ RetryRejected(w) \/ SyncReturns(w)
    \/ RefreshGranted(w) \/ RefreshFails(w) \/ RefreshAccessToken(w)
    \/ Prelogin(w) \/ LoginGranted(w) \/ fetchProfileKey(w)
    \/ Authenticate(w) \/ AuthenticateFails(w)

Call(w) == Initialize(w) \/ EnsureValidToken(w)

Next ==
    \/ Environment
    \/ \E w \in Callers : Call(w) \/ LockRenewMu(w) \/ Step(w)

Spec == Init /\ [][Next]_vars

(***************************************************************************)
(* Fairness.  Goroutines are scheduled, every request ends (30 s timeout)  *)
(* and a Go mutex does not pass a waiter over forever.  Calls keep being   *)
(* made: InitializeClient retries (how often is VaultSync's subject), then *)
(* the ticker of backgroundSync does.                                      *)
(***************************************************************************)
Fairness ==
    /\ \A w \in Callers : WF_vars(Step(w)) /\ SF_vars(LockRenewMu(w))
    /\ WF_vars(\E w \in Callers : Call(w))

FairSpec == Spec /\ Fairness
-----------------------------------------------------------------------------
(***************************************************************************)
(* Properties.                                                             *)
(***************************************************************************)

(* Every variable holds a value of its kind, and no request goes out       *)
(* without a token or with no key to decrypt its answer.                   *)
TypeOK ==
    /\ calm \in BOOLEAN /\ rejects \in BOOLEAN
    /\ live \subseteq Tokens /\ grants \subseteq Tokens
    /\ epoch \in Keys \ {0}
    /\ accessToken \in TokenOrNone /\ refreshToken \in TokenOrNone
    /\ expiring \in BOOLEAN /\ renewMu \in BOOLEAN
    /\ apiKeyLogin \in BOOLEAN /\ started \in BOOLEAN
    /\ symKey \in Keys
    /\ pc \in [Callers -> {"idle", "ensure", "snapshot", "sync", "rejected", "renew",
                           "ok", "err"} \cup RenewalSteps]
    /\ held \in [Callers -> [token : TokenOrNone, key : Keys]]
    /\ retried \in [Callers -> BOOLEAN]
    /\ master \in [Callers -> Keys]
    /\ reply \in [Callers -> [token : TokenOrNone, grant : TokenOrNone,
                              key : Keys]]
    /\ \A w \in Callers :
          pc[w] = "sync" => held[w].token # NoToken /\ held[w].key # 0

(* One renewal at a time: whoever talks to the token endpoint holds        *)
(* renewMu, except for the login that starts the client.                   *)
RenewalsAreSerialized ==
    \A v, w \in Callers :
        pc[v] \in RenewalSteps /\ pc[w] \in RenewalSteps => v = w

(* A token and the key read with it belong together: if the server takes   *)
(* the token, its payload decrypts with the key, also after a renewal in   *)
(* the middle of the call and after a rotation between any two requests.   *)
TokenKeyPaired ==
    /\ accessToken \in live => symKey = epoch
    /\ \A w \in Callers :
          pc[w] = "sync" /\ held[w].token \in live => held[w].key = epoch

(* Concurrent callers with one dead token cost one renewal: no renewal     *)
(* replaces a token that the server accepts and that is not expiring.      *)
NoNeedlessRenewal ==
    [][started /\ accessToken' # accessToken
        => accessToken \notin live \/ expiring]_vars

(* Every call comes back, whatever the server does: renewMu is never kept  *)
(* and no call waits for it forever.                                       *)
CallsReturn == \A w \in Callers : pc[w] # "idle" ~> pc[w] = "idle"

(* Once the server is well again, syncs succeed again, however sessions    *)
(* were revoked or keys rotated before.                                    *)
SyncRecovers == calm ~> \E w \in Callers : pc[w] = "ok"

(* README, "Auto token refresh": if the session is invalidated server-side *)
(* the service performs a full re-login instead of serving a stale cache;  *)
(* and the error of a rejected retry announces a forced re-authentication  *)
(* on the next attempt.  A full login is what ends "rejects".              *)
RejectedSessionLogsInAgain == calm /\ rejects ~> ~rejects
=============================================================================
