----------------------------- MODULE VaultSync -----------------------------
(***************************************************************************)
(* The sync cycle of internal/vaultwarden: Client.Initialize with its      *)
(* retries, the backgroundSync goroutine, POST /refresh requests and       *)
(* Client.Stop, all of which go through Client.syncVault.                  *)
(*                                                                         *)
(* One action per step at which goroutines can interleave: taking syncMu,  *)
(* sending GET /api/sync, the server answering it, and publishing the      *)
(* answer under mu (syncMu is released with it: nothing else happens in    *)
(* between).  The vault keeps changing at the server all the while.        *)
(*                                                                         *)
(* Left to other modules: tokens and their renewal.  "up" stands for the   *)
(* server being reachable and accepting this account's credentials; while  *)
(* it does not, each step that needs it ends in an error.                  *)
(***************************************************************************)
EXTENDS VaultData

CONSTANTS
    StartVaults, MaxVersion,
    Main,           \* the main goroutine, in InitializeClient
    Background,     \* the backgroundSync goroutine
    Refreshers,     \* handler goroutines serving POST /refresh
    MaxAttempts,    \* InitializeClient's maxRetries
    EscalateAt      \* syncFailureEscalationThreshold

Workers == {Main, Background} \cup Refreshers

ASSUME StartAssumption == StartVaults \subseteq Vault
ASSUME WorkerAssumption ==
    Main # Background /\ Main \notin Refreshers /\ Background \notin Refreshers
ASSUME BoundAssumption ==
    /\ MaxVersion \in Nat \ {0} /\ MaxAttempts \in Nat \ {0}
    /\ EscalateAt \in Nat

VARIABLES
    history,    \* the versions of the vault at the server, oldest first
    up,         \* the server answers this account
    cache,      \* Client.items
    nameMaps,   \* Client.nameMaps: the version whose names it holds, 0 = none
    retained,   \* Client.retained: the ciphers it counts
    seen,       \* ghost: the version the cache was last reconciled with
    syncMu,     \* Client.syncMu is held (a sync.Mutex records no owner)
    stopped,    \* Client.Stop was called: ctx cancelled, stopSync closed
    phase,      \* of the process: starting, serving, failed
    attempts,   \* InitializeClient's loop variable
    pc,         \* where each worker is
    snap,       \* the version the worker's response body holds, 0 = none
    result,     \* what syncVault (or Authenticate) returned to the worker
    arrival,    \* ghost: the newest version when a /refresh request came in
    failures,   \* backgroundSync's consecutiveFailures, up to EscalateAt
    partial     \* backgroundSync's consecutivePartial, up to EscalateAt

cacheVars == <<cache, nameMaps, retained, seen>>
processVars == <<stopped, phase, attempts>>
countVars == <<failures, partial>>
vars == <<history, up, cacheVars, syncMu, processVars, pc, snap, result,
          arrival, countVars>>

Newest == Len(history)

(***************************************************************************)
(* The environment.                                                        *)
(***************************************************************************)
VaultChange ==
    /\ Newest < MaxVersion
    /\ \E v \in NextVaults(history) : history' = Append(history, v)
    /\ UNCHANGED <<up, cacheVars, syncMu, processVars, pc, snap, result,
                   arrival, countVars>>

ServerFlips ==
    /\ up' = ~up
    /\ UNCHANGED <<history, cacheVars, syncMu, processVars, pc, snap, result,
                   arrival, countVars>>

(***************************************************************************)
(* The start of the process: InitializeClient tries Initialize up to       *)
(* MaxAttempts times and main gives up when all of them fail.              *)
(***************************************************************************)
Init ==
    /\ \E v \in StartVaults : history = <<v>>
    /\ up \in BOOLEAN
    /\ cache = EmptyCache
    /\ nameMaps = 0
    /\ retained = {}
    /\ seen = 0
    /\ syncMu = FALSE
    /\ stopped = FALSE
    /\ phase = "starting"
    /\ attempts = 0
    /\ pc = [w \in Workers |-> IF w = Background THEN "off" ELSE "idle"]
    /\ snap = [w \in Workers |-> 0]
    /\ result = [w \in Workers |-> "ok"]
    /\ arrival = [r \in Refreshers |-> 0]
    /\ failures = 0
    /\ partial = 0

Goto(w, step) == pc' = [pc EXCEPT ![w] = step]

(* Mutant: the loop's bound is off by one. *)
AttemptsLeftOffByOne == attempts <= MaxAttempts

AttemptsLeft == attempts < MaxAttempts

Initialize ==
    /\ phase = "starting" /\ pc[Main] = "idle"
    /\ attempts' = attempts + 1
    /\ Goto(Main, "auth")
    /\ UNCHANGED <<history, up, cacheVars, syncMu, stopped, phase, snap,
                   result, arrival, countVars>>

Authenticated ==
    /\ pc[Main] = "auth" /\ up
    /\ Goto(Main, "lock")
    /\ UNCHANGED <<history, up, cacheVars, syncMu, processVars, snap, result,
                   arrival, countVars>>

InitializeReturns ==
    /\ pc[Main] = "done"
    /\ result' = [result EXCEPT ![Main] = "ok"]
    /\ IF result[Main] = "ok"
       THEN /\ phase' = "serving"
            /\ attempts' = 0   \* the loop is left, its variable with it
            /\ pc' = [pc EXCEPT ![Main] = "idle", ![Background] = "idle"]
       ELSE /\ phase' = IF AttemptsLeft THEN "starting" ELSE "failed"
            /\ UNCHANGED attempts
            /\ Goto(Main, "idle")
    /\ UNCHANGED <<history, up, cacheVars, syncMu, stopped, snap, arrival,
                   countVars>>

(***************************************************************************)
(* syncVault and the request APIClient.Sync makes for it.  The request     *)
(* runs under Client.ctx: once Stop has cancelled it nothing new is sent,  *)
(* while an answer already on its way may still be read or be abandoned.   *)
(***************************************************************************)
InSync == {"send", "wait", "publish"}

(* Mutant: the mutex excludes nobody. *)
AnyoneMayLock == TRUE

SyncMuFree == ~syncMu

(* Mutant: a sync that finds another one running relies on that one. *)
LockOrJoin(w) ==
    /\ pc[w] = "lock"
    /\ syncMu' = TRUE
    /\ Goto(w, IF syncMu THEN "done" ELSE "send")
    /\ UNCHANGED <<history, up, cacheVars, processVars, snap, result, arrival,
                   countVars>>

LockSyncMu(w) ==
    /\ pc[w] = "lock" /\ SyncMuFree
    /\ syncMu' = TRUE
    /\ Goto(w, "send")
    /\ UNCHANGED <<history, up, cacheVars, processVars, snap, result, arrival,
                   countVars>>

(* The deferred unlock.  Mutant: only a sync that published unlocks. *)
UnlockAfterPublish(w) == syncMu' = (syncMu /\ pc[w] # "publish")

UnlockSyncMu(w) == syncMu' = (syncMu /\ pc[w] \notin InSync)

(* Mutant: the request is not bound to Client.ctx. *)
CanSendAfterStop == up

CanSend == up /\ ~stopped

Send(w) ==
    /\ pc[w] = "send" /\ CanSend
    /\ Goto(w, "wait")
    /\ UNCHANGED <<history, up, cacheVars, syncMu, processVars, snap, result,
                   arrival, countVars>>

Answer(w) ==
    /\ pc[w] = "wait" /\ up
    /\ snap' = [snap EXCEPT ![w] = Newest]
    /\ Goto(w, "publish")
    /\ UNCHANGED <<history, up, cacheVars, syncMu, processVars, result,
                   arrival, countVars>>

Fail(w) ==
    /\ pc[w] \in InSync \cup {"auth"}
    /\ ~up \/ stopped
    /\ UnlockSyncMu(w)
    /\ snap' = [snap EXCEPT ![w] = 0]
    /\ result' = [result EXCEPT ![w] = "err"]
    /\ Goto(w, "done")
    /\ UNCHANGED <<history, up, cacheVars, processVars, arrival, countVars>>

(* The failed ciphers with an entry to carry over, and newItems with those *)
(* entries in it under the placement the payload reports.                  *)
Retainable(newItems, old, failed) ==
    {c \in failed : newItems[c] = NoItem /\ old[c] # NoItem}

(* Mutants: a retained entry keeps the placement it was cached with; it is *)
(* counted but not carried over.                                           *)
RetainAsCached(newItems, old, vault) ==
    LET kept == Retainable(newItems, old, FailedCiphers(vault))
    IN  [c \in Ciphers |-> IF c \in kept THEN old[c] ELSE newItems[c]]

CountedOnly(newItems, old, vault) == newItems

retainFailedCiphers(newItems, old, vault) ==
    LET kept == Retainable(newItems, old, FailedCiphers(vault))
    IN  [c \in Ciphers |->
            IF c \in kept THEN [old[c] EXCEPT !.place = vault[c].place]
                          ELSE newItems[c]]

(* Mutant: a cipher whose value fails to decrypt is cached all the same.   *)
NewItemsUnchecked(vault) ==
    [c \in Ciphers |-> IF c \in Live(vault) THEN ItemOf(vault[c]) ELSE NoItem]

NewItems(vault) ==
    [c \in Ciphers |->
        IF c \in Decrypted(vault) THEN ItemOf(vault[c]) ELSE NoItem]

(* The name maps after the version i was published.  Mutants: they are     *)
(* replaced by an outage's empty answer, or kept after a partial failure.  *)
NamesAlways(i) == i

NamesWhenAllDecrypts(i) ==
    IF FailedCiphers(history[i]) # {} THEN nameMaps ELSE i

PublishedNames(i) == IF NothingDecrypts(history[i]) THEN nameMaps ELSE i

Publish(w) ==
    LET vault == history[snap[w]]
        newItems == NewItems(vault)
    IN  /\ pc[w] = "publish"
        /\ cache' = retainFailedCiphers(newItems, cache, vault)
        /\ retained' = Retainable(newItems, cache, FailedCiphers(vault))
        /\ nameMaps' = PublishedNames(snap[w])
        /\ seen' = snap[w]
        /\ UnlockSyncMu(w)
        /\ snap' = [snap EXCEPT ![w] = 0]
        /\ result' = [result EXCEPT ![w] =
                        IF NothingDecrypts(vault) THEN "err" ELSE "ok"]
        /\ Goto(w, "done")
        /\ UNCHANGED <<history, up, processVars, arrival, countVars>>

(***************************************************************************)
(* backgroundSync: a select between the ticker and stopSync, and the       *)
(* counters that decide when its log escalates.  The retained count is     *)
(* read back after syncVault has let go of every lock.                     *)
(***************************************************************************)
OneMore(n) == IF n < EscalateAt THEN n + 1 ELSE n

Escalated(n) == n >= EscalateAt

(* Mutant: the ticker's syncs are given up once the failures escalate. *)
TickUntilEscalated ==
    /\ pc[Background] = "idle" /\ ~Escalated(failures)
    /\ Goto(Background, "lock")
    /\ UNCHANGED <<history, up, cacheVars, syncMu, processVars, snap, result,
                   arrival, countVars>>

Tick ==
    /\ pc[Background] = "idle"
    /\ Goto(Background, "lock")
    /\ UNCHANGED <<history, up, cacheVars, syncMu, processVars, snap, result,
                   arrival, countVars>>

(* An error leaves consecutivePartial alone.  Mutant: it starts it over. *)
CountErrorAfresh == failures' = OneMore(failures) /\ partial' = 0

CountError == failures' = OneMore(failures) /\ UNCHANGED partial

Account ==
    /\ pc[Background] = "done"
    /\ IF result[Background] = "err"
       THEN CountError
       ELSE /\ failures' = 0
            /\ partial' = IF retained # {} THEN OneMore(partial) ELSE 0
    /\ result' = [result EXCEPT ![Background] = "ok"]
    /\ Goto(Background, "idle")
    /\ UNCHANGED <<history, up, cacheVars, syncMu, processVars, snap, arrival>>

(* Mutant: stopSync is looked at only after a sync that succeeded. *)
BackgroundStopsAfterSuccess ==
    /\ pc[Background] = "idle" /\ stopped /\ failures = 0
    /\ Goto(Background, "off")
    /\ UNCHANGED <<history, up, cacheVars, syncMu, processVars, snap, result,
                   arrival, countVars>>

BackgroundStops ==
    /\ pc[Background] = "idle" /\ stopped
    /\ Goto(Background, "off")
    /\ UNCHANGED <<history, up, cacheVars, syncMu, processVars, snap, result,
                   arrival, countVars>>

Stop ==
    /\ phase = "serving" /\ ~stopped
    /\ stopped' = TRUE
    /\ UNCHANGED <<history, up, cacheVars, syncMu, phase, attempts, pc, snap,
                   result, arrival, countVars>>

(***************************************************************************)
(* POST /refresh: ClearCache is a sync whose error is logged and dropped,  *)
(* and the handler answers 200 "cache cleared successfully" either way.    *)
(***************************************************************************)
RefreshCache(r) ==
    /\ phase = "serving" /\ pc[r] = "idle"
    /\ arrival' = [arrival EXCEPT ![r] = Newest]
    /\ Goto(r, "lock")
    /\ UNCHANGED <<history, up, cacheVars, syncMu, processVars, snap, result,
                   countVars>>

Respond(r) ==
    /\ pc[r] = "done"
    /\ arrival' = [arrival EXCEPT ![r] = 0]
    /\ result' = [result EXCEPT ![r] = "ok"]
    /\ Goto(r, "idle")
    /\ UNCHANGED <<history, up, cacheVars, syncMu, processVars, snap,
                   countVars>>

syncVault(w) == LockSyncMu(w) \/ Send(w) \/ Answer(w) \/ Publish(w) \/ Fail(w)

Next ==
    \/ VaultChange \/ ServerFlips
    \/ Initialize \/ Authenticated \/ InitializeReturns
    \/ Tick \/ Account \/ BackgroundStops \/ Stop
    \/ \E r \in Refreshers : RefreshCache(r) \/ Respond(r)
    \/ \E w \in Workers : syncVault(w)

Spec == Init /\ [][Next]_vars

(***************************************************************************)
(* Fairness.  Goroutines are scheduled and every request ends (the HTTP    *)
(* client has a 30 s timeout).  A Go mutex hands over to a goroutine that  *)
(* has waited for a millisecond, so a waiter is not overtaken forever; a   *)
(* select with both channels ready picks one at random, so a goroutine     *)
(* that keeps coming back to a closed stopSync eventually takes it.        *)
(***************************************************************************)
Fairness ==
    /\ WF_vars(Initialize) /\ WF_vars(Authenticated \/ Fail(Main))
    /\ WF_vars(InitializeReturns)
    /\ WF_vars(Tick) /\ WF_vars(Account) /\ SF_vars(BackgroundStops)
    /\ \A r \in Refreshers : WF_vars(Respond(r))
    /\ \A w \in Workers :
          /\ SF_vars(LockSyncMu(w))
          /\ WF_vars(Send(w) \/ Answer(w) \/ Publish(w) \/ Fail(w))

FairSpec == Spec /\ Fairness

-----------------------------------------------------------------------------
(***************************************************************************)
(* Properties.                                                             *)
(***************************************************************************)

(* Every variable holds a value of its kind, within the code's bounds.     *)
TypeOK ==
    /\ history \in Seq(Vault) /\ Newest \in 1..MaxVersion
    /\ up \in BOOLEAN /\ syncMu \in BOOLEAN /\ stopped \in BOOLEAN
    /\ cache \in Cache
    /\ nameMaps \in 0..Newest /\ seen \in 0..Newest
    /\ retained \in SUBSET Ciphers
    /\ phase \in {"starting", "serving", "failed"}
    /\ attempts \in 0..MaxAttempts
    /\ pc \in [Workers -> {"off", "idle", "auth", "lock", "done"} \cup InSync]
    /\ snap \in [Workers -> 0..Newest]
    /\ result \in [Workers -> {"ok", "err"}]
    /\ arrival \in [Refreshers -> 0..Newest]
    /\ failures \in 0..EscalateAt /\ partial \in 0..EscalateAt

(* What is served is what the last reconciled answer of the server says:   *)
(* a cipher that decrypts is cached with its content and placement, one    *)
(* that does not is cached, if at all, under its current placement, and a  *)
(* trashed or missing one is not cached, however many syncs overlapped.    *)
CacheMatchesVault ==
    IF seen = 0 THEN cache = EmptyCache
    ELSE \A c \in Ciphers :
            LET entry == history[seen][c] IN
            /\ entry.state = "open" => cache[c] = ItemOf(entry)
            /\ cache[c] # NoItem => /\ c \in Live(history[seen])
                                    /\ cache[c].place = entry.place

(* Client.retained, which backgroundSync reads later and without syncMu,   *)
(* counts exactly the cached ciphers whose content is stale.               *)
RetainedAreStale ==
    seen > 0 =>
        retained = {c \in FailedCiphers(history[seen]) : cache[c] # NoItem}

(* A stale entry never shows a content the cipher did not have, readable   *)
(* by this account, in the answer being served or in an earlier version.   *)
ServedValuesWereReadable ==
    \A c \in Ciphers :
        cache[c] # NoItem =>
            \E i \in 1..seen : /\ history[i][c].state = "open"
                               /\ history[i][c].val = cache[c].val

(* Names and items come from the same answer, except while the last answer *)
(* decrypted nothing: only then are older names used with newer items.     *)
NamesAgeOnlyInOutage ==
    /\ nameMaps <= seen
    /\ nameMaps < seen => NothingDecrypts(history[seen])

(* A /refresh whose sync succeeded leaves the cache at least as recent as  *)
(* the vault was when the request arrived, although the request may have   *)
(* queued behind other syncs, one of which was already fetching.           *)
RefreshIsFresh ==
    \A r \in Refreshers :
        pc[r] = "done" /\ result[r] = "ok" => seen >= arrival[r]

(* The case for syncMu: an older answer never replaces a newer one.        *)
NoStaleOverwrite == [][seen' >= seen]_vars

(* The same, as a reader sees it: a cipher that is not cached and that no  *)
(* version since the one being served holds in a live state is not served  *)
(* again: nothing resurrects a trashed or removed item.                    *)
NoResurrection ==
    [][\A c \in Ciphers :
          (/\ seen > 0 /\ cache[c] = NoItem
           /\ \A i \in seen..Newest : c \notin Live(history[i]))
          => cache'[c] = NoItem]_vars

(* After Stop only a request that was already out may still change what is *)
(* served; when none is, none goes out again and the cache is final.       *)
NothingIsOut == \A w \in Workers : pc[w] \notin {"wait", "publish"}

StoppedCacheIsFinal ==
    [][stopped /\ NothingIsOut => NothingIsOut' /\ UNCHANGED cacheVars]_vars

(* The sync cycle implements the abstract cache.                           *)
Abstract == INSTANCE SecretCache
ImplementsSecretCache == Abstract!Spec

(* Liveness.  A /refresh is answered, whatever the server does and however *)
(* many syncs compete for syncMu.                                          *)
RefreshAnswered ==
    \A r \in Refreshers : pc[r] = "lock" ~> pc[r] = "idle"

(* Startup ends: the client serves, or main gives up after its attempts.   *)
StartupEnds == <>(phase \in {"serving", "failed"})

(* After Stop the background goroutine ends, even when it was in a sync.   *)
BackgroundEnds == stopped ~> [](pc[Background] = "off")

(* While the server answers, every change of the vault reaches the cache   *)
(* by background sync alone.                                               *)
CacheConverges ==
    <>[](up /\ phase = "serving" /\ ~stopped) => <>[](seen = Newest)

(* A vault that stays half readable is eventually escalated in the log,    *)
(* whatever mixture of partial, failing and refreshed syncs comes along.   *)
HalfReadableEscalates ==
    <>[](retained # {} /\ phase = "serving" /\ ~stopped)
        => []<>(Escalated(failures) \/ Escalated(partial))

(* README, "Trashed items are never served": deleting an item removes it   *)
(* from the API on the next sync or POST /refresh.  A /refresh answers 200 *)
(* "cache cleared successfully", so the items it serves afterwards should  *)
(* be no older than the request.  Client.ClearCache drops the error.       *)
AcknowledgedRefreshIsFresh ==
    \A r \in Refreshers : pc[r] = "done" => seen >= arrival[r]
=============================================================================
