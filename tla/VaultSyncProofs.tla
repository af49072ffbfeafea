-------------------------- MODULE VaultSyncProofs --------------------------
(***************************************************************************)
(* Proofs about VaultSync, for every set of ciphers, contents, placements, *)
(* start vaults and refreshers, and for every value of the bounds.         *)
(***************************************************************************)
EXTENDS VaultSync, SequenceTheorems, TLAPS

-----------------------------------------------------------------------------
(* Lemmas about the data.                                                  *)

(* The content of an entry is an item.                                     *)
LEMMA ItemOfType == ASSUME NEW e \in Entry PROVE ItemOf(e) \in Item
BY DEF ItemOf, Entry, Item

(* The two steps of syncVault, building newItems and carrying failed       *)
(* ciphers over, amount to Reconcile.                                      *)
LEMMA RetainIsReconcile ==
    ASSUME NEW old \in Cache, NEW vault \in Vault
    PROVE  retainFailedCiphers(NewItems(vault), old, vault)
             = Reconcile(old, vault)
<1> DEFINE new == NewItems(vault)
           kept == Retainable(new, old, FailedCiphers(vault))
<1>1. ASSUME NEW c \in Ciphers
      PROVE  (IF c \in kept THEN [old[c] EXCEPT !.place = vault[c].place]
                            ELSE new[c])
             = (IF c \in Decrypted(vault) THEN ItemOf(vault[c])
                ELSE IF c \in FailedCiphers(vault) /\ old[c] # NoItem
                     THEN [val |-> old[c].val, place |-> vault[c].place]
                     ELSE NoItem)
  <2>1. vault[c] \in Entry
    BY DEF Vault
  <2>2. CASE c \in Decrypted(vault)
    <3>1. new[c] = ItemOf(vault[c]) /\ new[c] # NoItem
      BY <2>1, <2>2, ItemOfType, NoItemAssumption DEF NewItems
    <3> QED BY <2>2, <3>1 DEF Retainable
  <2>3. CASE c \notin Decrypted(vault)
    <3>1. new[c] = NoItem
      BY <2>3 DEF NewItems
    <3>2. c \in kept <=> c \in FailedCiphers(vault) /\ old[c] # NoItem
      BY <3>1 DEF Retainable
    <3>3. old[c] # NoItem => old[c] \in Item
      BY DEF Cache
    <3>4. old[c] \in Item => [old[c] EXCEPT !.place = vault[c].place]
                              = [val |-> old[c].val, place |-> vault[c].place]
      BY DEF Item
    <3> HIDE DEF new, kept
    <3> QED BY <2>3, <3>1, <3>2, <3>3, <3>4
  <2> QED BY <2>2, <2>3
<1> QED BY <1>1 DEF retainFailedCiphers, Reconcile

(* A reconciled cache is a cache.                                          *)
LEMMA ReconcileType ==
    ASSUME NEW old \in Cache, NEW vault \in Vault
    PROVE  Reconcile(old, vault) \in Cache
<1> SUFFICES ASSUME NEW c \in Ciphers
             PROVE  Reconcile(old, vault)[c] \in Item \cup {NoItem}
  BY DEF Reconcile, Cache
<1>1. vault[c] \in Entry /\ old[c] \in Item \cup {NoItem}
  BY DEF Vault, Cache
<1>2. ItemOf(vault[c]) \in Item
  BY <1>1, ItemOfType
<1>3. old[c] # NoItem => [val |-> old[c].val, place |-> vault[c].place] \in Item
  BY <1>1 DEF Item, Entry
<1> QED BY <1>2, <1>3 DEF Reconcile

(* A change of the vault leaves it a vault.                                *)
LEMMA NextVaultType ==
    ASSUME NEW h \in Seq(Vault), Len(h) >= 1, NEW v \in NextVaults(h)
    PROVE  v \in Vault
<1> DEFINE last == h[Len(h)]
<1>1. last \in Vault
  BY ElementOfSeq
<1>2. PICK c \in Ciphers :
        \E e \in ChangedEntries(last[c],
                   \A i \in DOMAIN h : h[i][c].state = "absent") :
            v = [last EXCEPT ![c] = e]
  BY DEF NextVaults
<1>3. PICK e : /\ e \in ChangedEntries(last[c],
                          \A i \in DOMAIN h : h[i][c].state = "absent")
               /\ v = [last EXCEPT ![c] = e]
  BY <1>2
<1>4. last[c] \in Entry
  BY <1>1 DEF Vault
<1>5. e \in Entry
  BY <1>3, <1>4 DEF ChangedEntries, Entry, CipherState
<1> HIDE DEF last
<1> QED BY <1>1, <1>3, <1>5 DEF Vault

-----------------------------------------------------------------------------
(***************************************************************************)
(* The inductive invariant.  Serialization: whoever is between taking and  *)
(* releasing syncMu holds it alone.  Freshness: the answer such a worker   *)
(* is about to publish is at least as recent as the cache, and as the      *)
(* /refresh it was fetched for.                                            *)
(***************************************************************************)
Serialized ==
    /\ \A w \in Workers : pc[w] \in InSync => syncMu
    /\ \A w1, w2 \in Workers :
          pc[w1] \in InSync /\ pc[w2] \in InSync => w1 = w2

AnswersAreFresh ==
    \A w \in Workers :
        pc[w] = "publish" =>
            /\ snap[w] >= 1 /\ snap[w] >= seen
            /\ w \in Refreshers => snap[w] >= arrival[w]

AttemptsBounded ==
    phase = "starting" /\ pc[Main] = "idle" => attempts < MaxAttempts

IInv ==
    /\ TypeOK
    /\ AttemptsBounded
    /\ Serialized
    /\ AnswersAreFresh
    /\ CacheMatchesVault
    /\ RetainedAreStale
    /\ NamesAgeOnlyInOutage
    /\ RefreshIsFresh

(* Every step from here on reasons about the three kinds of workers.       *)
USE WorkerAssumption, BoundAssumption DEF Workers, InSync

(* A fresh client satisfies the inductive invariant.                       *)
LEMMA InitInv == Init => IInv
<1> SUFFICES ASSUME Init PROVE IInv
  OBVIOUS
<1> USE DEF Init
<1>1. PICK v \in StartVaults : history = <<v>>
  OBVIOUS
<1>2. v \in Vault /\ Len(history) = 1 /\ history \in Seq(Vault)
  BY <1>1, StartAssumption
<1>3. TypeOK
  <2>1. cache \in Cache
    BY DEF EmptyCache, Cache
  <2>2. pc \in [Workers -> {"off", "idle", "auth", "lock", "done"} \cup InSync]
    OBVIOUS
  <2>3. snap \in [Workers -> 0..Newest]
    BY <1>2 DEF Newest
  <2>4. result \in [Workers -> {"ok", "err"}]
    OBVIOUS
  <2>5. arrival \in [Refreshers -> 0..Newest]
    BY <1>2 DEF Newest
  <2>6. Newest \in 1..MaxVersion
    BY <1>2 DEF Newest
  <2>7. /\ nameMaps \in 0..Newest /\ seen \in 0..Newest
        /\ retained \in SUBSET Ciphers
        /\ attempts \in 0..MaxAttempts
        /\ failures \in 0..EscalateAt /\ partial \in 0..EscalateAt
    BY <2>6
  <2>8. /\ up \in BOOLEAN /\ syncMu \in BOOLEAN /\ stopped \in BOOLEAN
        /\ phase \in {"starting", "serving", "failed"}
    OBVIOUS
  <2> HIDE DEF Init
  <2> QED BY <1>2, <2>1, <2>2, <2>3, <2>4, <2>5, <2>6, <2>7, <2>8 DEF TypeOK
<1>4. Serialized /\ AnswersAreFresh /\ RefreshIsFresh /\ AttemptsBounded
  BY DEF Serialized, AnswersAreFresh, RefreshIsFresh, AttemptsBounded
<1>5. CacheMatchesVault /\ RetainedAreStale /\ NamesAgeOnlyInOutage
  BY DEF CacheMatchesVault, RetainedAreStale, NamesAgeOnlyInOutage
<1> QED BY <1>3, <1>4, <1>5 DEF IInv

(***************************************************************************)
(* Steps that leave the versions and everything a sync publishes alone:    *)
(* the part of the invariant about the cache is theirs for free.           *)
(***************************************************************************)
CacheInv == CacheMatchesVault /\ RetainedAreStale /\ NamesAgeOnlyInOutage

(* Nothing about the cache changes while its variables do not.             *)
LEMMA CacheInvUnchanged ==
    ASSUME CacheInv, UNCHANGED <<history, cacheVars>>
    PROVE  CacheInv'
BY DEF CacheInv, CacheMatchesVault, RetainedAreStale, NamesAgeOnlyInOutage,
       cacheVars

(* A new version leaves the older ones where they are.                     *)
LEMMA VaultChangePreserves ==
    ASSUME IInv, VaultChange PROVE IInv'
<1> USE DEF IInv, VaultChange, cacheVars, processVars, countVars
<1>1. PICK v \in NextVaults(history) : history' = Append(history, v)
  OBVIOUS
<1>2. history \in Seq(Vault) /\ Newest \in 1..MaxVersion /\ Newest < MaxVersion
  BY DEF TypeOK
<1>3. v \in Vault
  BY <1>2, NextVaultType DEF Newest
<1>4. /\ history' \in Seq(Vault)
      /\ Newest' = Newest + 1
      /\ \A i \in 1..Newest : history'[i] = history[i]
  BY <1>1, <1>2, <1>3, AppendProperties DEF Newest
<1>5. TypeOK'
  <2>1. 0..Newest \subseteq 0..Newest'
    BY <1>2, <1>4
  <2> QED BY <1>2, <1>4, <2>1 DEF TypeOK
<1>6. /\ seen \in Nat /\ nameMaps \in Nat
      /\ seen > 0 => history'[seen] = history[seen]
  <2>1. seen \in 0..Newest /\ nameMaps \in 0..Newest
    BY DEF TypeOK
  <2> HIDE DEF IInv, VaultChange
  <2>2. seen > 0 => seen \in 1..Newest
    BY <1>2, <2>1
  <2> QED BY <1>2, <1>4, <2>1, <2>2
<1> HIDE DEF IInv, VaultChange
<1>7. CacheMatchesVault' /\ RetainedAreStale' /\ NamesAgeOnlyInOutage'
  <2> UNCHANGED <<cache, nameMaps, retained, seen>>
    BY DEF VaultChange
  <2>1. CacheMatchesVault'
    BY <1>6 DEF CacheMatchesVault, IInv
  <2>2. RetainedAreStale'
    BY <1>6 DEF RetainedAreStale, IInv
  <2>3. NamesAgeOnlyInOutage'
    BY <1>6 DEF NamesAgeOnlyInOutage, IInv
  <2> QED BY <2>1, <2>2, <2>3
<1>8. Serialized' /\ AnswersAreFresh' /\ RefreshIsFresh' /\ AttemptsBounded'
  BY DEF Serialized, AnswersAreFresh, RefreshIsFresh, AttemptsBounded,
         IInv, VaultChange
<1> QED BY <1>5, <1>7, <1>8 DEF IInv

(* What the invariant says of the workers' control and of what they carry. *)
ControlInv == AttemptsBounded /\ Serialized /\ AnswersAreFresh /\ RefreshIsFresh

(* The invariant's parts are proved separately.                            *)
LEMMA IInvParts == IInv <=> TypeOK /\ ControlInv /\ CacheInv
BY DEF IInv, ControlInv, CacheInv

(***************************************************************************)
(* The steps outside syncVault.                                            *)
(***************************************************************************)
ProcessStep ==
    \/ ServerFlips \/ Initialize \/ Authenticated \/ InitializeReturns
    \/ Tick \/ Account \/ BackgroundStops \/ Stop
    \/ \E r \in Refreshers : RefreshCache(r) \/ Respond(r)

(* The steps of goroutines that neither fetch nor publish: types,          *)
LEMMA ProcessStepType == ASSUME IInv, ProcessStep PROVE TypeOK'
<1>1. TypeOK /\ AttemptsBounded
  BY DEF IInv
<1> USE <1>1 DEF TypeOK, cacheVars, processVars, countVars, Goto, Newest
<1>2. CASE ServerFlips
  BY <1>2 DEF ServerFlips
<1>3. CASE Initialize
  BY <1>3 DEF Initialize, AttemptsBounded
<1>4. CASE Authenticated
  BY <1>4 DEF Authenticated
<1>5. CASE InitializeReturns
  BY <1>5 DEF InitializeReturns, AttemptsLeft
<1>6. CASE Tick
  BY <1>6 DEF Tick
<1>7. CASE Account
  BY <1>7 DEF Account, CountError, OneMore
<1>8. CASE BackgroundStops
  BY <1>8 DEF BackgroundStops
<1>9. CASE Stop
  BY <1>9 DEF Stop
<1>10. CASE \E r \in Refreshers : RefreshCache(r)
  BY <1>10 DEF RefreshCache
<1>11. CASE \E r \in Refreshers : Respond(r)
  BY <1>11 DEF Respond
<1> QED BY <1>2, <1>3, <1>4, <1>5, <1>6, <1>7, <1>8, <1>9, <1>10, <1>11
        DEF ProcessStep

(* control,                                                                *)
LEMMA ProcessStepControl == ASSUME IInv, ProcessStep PROVE ControlInv'
<1>1. /\ ControlInv
      /\ pc \in [Workers -> {"off", "idle", "auth", "lock", "done"} \cup InSync]
      /\ attempts \in 0..MaxAttempts
      /\ arrival \in [Refreshers -> 0..Newest]
      /\ result \in [Workers -> {"ok", "err"}]
  BY DEF IInv, TypeOK, ControlInv
<1> USE <1>1 DEF ControlInv, AttemptsBounded, Serialized, AnswersAreFresh,
                 RefreshIsFresh, cacheVars, processVars, countVars, Goto
<1>2. CASE ServerFlips
  BY <1>2 DEF ServerFlips
<1>3. CASE Initialize
  BY <1>3 DEF Initialize
<1>4. CASE Authenticated
  BY <1>4 DEF Authenticated
<1>5. CASE InitializeReturns
  BY <1>5 DEF InitializeReturns, AttemptsLeft
<1>6. CASE Tick
  BY <1>6 DEF Tick
<1>7. CASE Account
  BY <1>7 DEF Account
<1>8. CASE BackgroundStops
  BY <1>8 DEF BackgroundStops
<1>9. CASE Stop
  BY <1>9 DEF Stop
<1>10. CASE \E r \in Refreshers : RefreshCache(r)
  BY <1>10 DEF RefreshCache
<1>11. CASE \E r \in Refreshers : Respond(r)
  BY <1>11 DEF Respond
<1> QED BY <1>2, <1>3, <1>4, <1>5, <1>6, <1>7, <1>8, <1>9, <1>10, <1>11
        DEF ProcessStep

(* and so the whole invariant.                                             *)
LEMMA ProcessStepPreserves == ASSUME IInv, ProcessStep PROVE IInv'
<1>1. UNCHANGED <<history, cacheVars>>
  BY DEF ProcessStep, ServerFlips, Initialize, Authenticated,
         InitializeReturns, Tick, Account, BackgroundStops, Stop,
         RefreshCache, Respond
<1>2. CacheInv'
  BY <1>1, CacheInvUnchanged, IInvParts
<1>3. TypeOK' /\ ControlInv'
  BY ProcessStepType, ProcessStepControl
<1> QED BY <1>2, <1>3 DEF IInv, ControlInv, CacheInv

(***************************************************************************)
(* The steps of syncVault that do not publish.                             *)
(***************************************************************************)
LEMMA FetchPreserves ==
    ASSUME IInv, NEW w \in Workers,
           LockSyncMu(w) \/ Send(w) \/ Answer(w) \/ Fail(w)
    PROVE  IInv'
<1> USE DEF cacheVars, processVars, countVars, Goto, UnlockSyncMu
<1>1. UNCHANGED <<history, cacheVars>>
  BY DEF LockSyncMu, Send, Answer, Fail
<1>2. CacheInv'
  BY <1>1, CacheInvUnchanged, IInvParts
<1>3. TypeOK'
  <2>1. TypeOK
    BY DEF IInv
  <2>2. Newest \in 0..Newest
    BY <2>1 DEF TypeOK
  <2> USE <2>1, <2>2 DEF TypeOK, Newest
  <2>3. CASE LockSyncMu(w)
    BY <2>3 DEF LockSyncMu
  <2>4. CASE Send(w)
    BY <2>4 DEF Send
  <2>5. CASE Answer(w)
    BY <2>5 DEF Answer
  <2>6. CASE Fail(w)
    BY <2>6 DEF Fail
  <2> QED BY <2>3, <2>4, <2>5, <2>6
<1>4. ControlInv'
  <2>1. /\ ControlInv
        /\ pc \in [Workers -> {"off", "idle", "auth", "lock", "done"} \cup InSync]
        /\ snap \in [Workers -> 0..Newest]
        /\ arrival \in [Refreshers -> 0..Newest]
        /\ result \in [Workers -> {"ok", "err"}]
        /\ syncMu \in BOOLEAN
        /\ seen \in 0..Newest /\ Newest \in Nat \ {0}
    BY DEF IInv, TypeOK, ControlInv
  <2> USE <2>1 DEF ControlInv, AttemptsBounded, Serialized, AnswersAreFresh,
                   RefreshIsFresh
  <2>3. CASE LockSyncMu(w)
    BY <2>3 DEF LockSyncMu, SyncMuFree
  <2>4. CASE Send(w)
    BY <2>4 DEF Send
  <2>5. CASE Answer(w)
    BY <2>5 DEF Answer
  <2>6. CASE Fail(w)
    BY <2>6 DEF Fail
  <2> QED BY <2>3, <2>4, <2>5, <2>6
<1> QED BY <1>2, <1>3, <1>4 DEF IInv, ControlInv, CacheInv

(***************************************************************************)
(* Publishing.  First what the step does to the cache, in terms of the     *)
(* answer it publishes; the rest of the invariant follows from that.       *)
(***************************************************************************)
LEMMA PublishEffect ==
    ASSUME IInv, NEW w \in Workers, Publish(w)
    PROVE  /\ snap[w] \in 1..Newest
           /\ history[snap[w]] \in Vault
           /\ seen <= snap[w] /\ seen' = snap[w]
           /\ history' = history
           /\ cache' = Reconcile(cache, history[snap[w]])
           /\ nameMaps' = IF NothingDecrypts(history[snap[w]])
                          THEN nameMaps ELSE snap[w]
           /\ retained' = {c \in FailedCiphers(history[snap[w]]) :
                              cache[c] # NoItem}
<1>1. /\ history \in Seq(Vault) /\ Newest \in Nat /\ Newest = Len(history)
      /\ snap[w] \in 0..Newest /\ cache \in Cache
  BY DEF IInv, TypeOK, Newest
<1>2. snap[w] >= 1 /\ snap[w] >= seen
  BY DEF IInv, AnswersAreFresh, Publish
<1>3. snap[w] \in 1..Newest
  BY <1>1, <1>2
<1> DEFINE vault == history[snap[w]]
<1>4. vault \in Vault
  BY <1>1, <1>3, ElementOfSeq
<1>5. cache' = Reconcile(cache, vault)
  <2>1. cache' = retainFailedCiphers(NewItems(vault), cache, vault)
    BY DEF Publish
  <2> HIDE DEF vault
  <2> QED BY <1>1, <1>4, <2>1, RetainIsReconcile
<1>6. retained' = {c \in FailedCiphers(vault) : cache[c] # NoItem}
  <2>1. \A c \in FailedCiphers(vault) : NewItems(vault)[c] = NoItem
    BY DEF FailedCiphers, Decrypted, NewItems
  <2>2. retained' = {c \in FailedCiphers(vault) :
                        NewItems(vault)[c] = NoItem /\ cache[c] # NoItem}
    BY DEF Publish, Retainable
  <2> HIDE DEF vault
  <2> QED BY <2>1, <2>2
<1>7. nameMaps' = IF NothingDecrypts(vault) THEN nameMaps ELSE snap[w]
  BY DEF Publish, PublishedNames
<1>8. seen <= snap[w] /\ seen' = snap[w] /\ history' = history
  BY <1>1, <1>2 DEF Publish, IInv, TypeOK
<1> QED BY <1>3, <1>4, <1>5, <1>6, <1>7, <1>8

(* Publishing preserves the invariant: only the owner of syncMu publishes. *)
LEMMA PublishPreserves ==
    ASSUME IInv, NEW w \in Workers, Publish(w) PROVE IInv'
<1> DEFINE vault == history[snap[w]]
<1>1. /\ snap[w] \in 1..Newest /\ vault \in Vault
      /\ seen <= snap[w] /\ seen' = snap[w] /\ history' = history
      /\ cache' = Reconcile(cache, vault)
      /\ nameMaps' = IF NothingDecrypts(vault) THEN nameMaps ELSE snap[w]
      /\ retained' = {c \in FailedCiphers(vault) : cache[c] # NoItem}
  BY PublishEffect
<1>2. TypeOK /\ cache \in Cache /\ seen \in Nat /\ nameMaps \in Nat
  BY DEF IInv, TypeOK
<1> HIDE DEF vault
<1>3. cache' \in Cache
  BY <1>1, <1>2, ReconcileType
<1>4. TypeOK'
  <2>1. retained' \in SUBSET Ciphers
    BY <1>1 DEF FailedCiphers
  <2>2. Newest' = Newest
    BY <1>1 DEF Newest
  <2>3. /\ syncMu' \in BOOLEAN /\ UNCHANGED <<up, stopped, phase, attempts,
                                             arrival, failures, partial>>
        /\ pc' \in [Workers -> {"off", "idle", "auth", "lock", "done"}
                                  \cup InSync]
        /\ result' \in [Workers -> {"ok", "err"}]
        /\ snap' \in [Workers -> 0..Newest]
    BY <1>2 DEF TypeOK, Publish, UnlockSyncMu, Goto, processVars, countVars
  <2>4. seen' \in 0..Newest /\ nameMaps' \in 0..Newest
    BY <1>1, <1>2 DEF TypeOK
  <2> QED BY <1>1, <1>2, <1>3, <2>1, <2>2, <2>3, <2>4 DEF TypeOK
<1>5. CacheInv'
  <2>1. history'[seen'] = vault /\ seen' > 0
    BY <1>1 DEF vault
  <2>2. CacheMatchesVault'
    <3>1. ASSUME NEW c \in Ciphers
          PROVE  /\ vault[c].state = "open" => cache'[c] = ItemOf(vault[c])
                 /\ cache'[c] # NoItem => /\ c \in Live(vault)
                                         /\ cache'[c].place = vault[c].place
      <4>1. cache'[c] =
              IF c \in Decrypted(vault) THEN ItemOf(vault[c])
              ELSE IF c \in FailedCiphers(vault) /\ cache[c] # NoItem
                   THEN [val |-> cache[c].val, place |-> vault[c].place]
                   ELSE NoItem
        BY <1>1 DEF Reconcile
      <4>2. c \in Decrypted(vault) <=> vault[c].state = "open"
        BY DEF Decrypted
      <4> QED BY <4>1, <4>2 DEF Live, ItemOf
    <3> QED BY <2>1, <3>1 DEF CacheMatchesVault
  <2>3. RetainedAreStale'
    <3>1. \A c \in FailedCiphers(vault) :
            cache[c] # NoItem <=> cache'[c] # NoItem
      <4> SUFFICES ASSUME NEW c \in FailedCiphers(vault)
                   PROVE  cache[c] # NoItem <=> cache'[c] # NoItem
        OBVIOUS
      <4>1. c \in Ciphers /\ c \notin Decrypted(vault)
        BY DEF FailedCiphers, Decrypted
      <4>2. cache[c] \in Item \cup {NoItem} /\ vault[c] \in Entry
        BY <1>1, <1>2, <4>1 DEF Cache, Vault
      <4>3. cache[c] # NoItem =>
              [val |-> cache[c].val, place |-> vault[c].place] \in Item
        BY <4>2 DEF Item, Entry
      <4> QED BY <1>1, <4>1, <4>3, NoItemAssumption DEF Reconcile
    <3> QED BY <1>1, <2>1, <3>1 DEF RetainedAreStale
  <2>4. NamesAgeOnlyInOutage'
    <3>1. nameMaps <= seen
      BY DEF IInv, NamesAgeOnlyInOutage
    <3> QED BY <1>1, <1>2, <2>1, <3>1 DEF NamesAgeOnlyInOutage
  <2> QED BY <2>2, <2>3, <2>4 DEF CacheInv
<1>6. ControlInv'
  <2>1. /\ ControlInv
        /\ pc \in [Workers -> {"off", "idle", "auth", "lock", "done"} \cup InSync]
        /\ snap \in [Workers -> 0..Newest]
        /\ arrival \in [Refreshers -> 0..Newest]
        /\ result \in [Workers -> {"ok", "err"}]
        /\ syncMu \in BOOLEAN
        /\ seen \in Nat /\ Newest \in Nat
    BY DEF IInv, TypeOK, ControlInv
  <2>2. /\ pc[w] = "publish" /\ pc' = [pc EXCEPT ![w] = "done"]
        /\ snap' = [snap EXCEPT ![w] = 0]
        /\ UNCHANGED <<stopped, phase, attempts, arrival>>
        /\ \A v \in Workers : v # w => result'[v] = result[v]
    BY <2>1 DEF Publish, Goto, processVars
  <2>3. \A v \in Workers : v # w => pc[v] \notin InSync
    BY <2>1, <2>2 DEF ControlInv, Serialized
  <2>4. Serialized' /\ AnswersAreFresh'
    BY <2>1, <2>2, <2>3 DEF Serialized, AnswersAreFresh
  <2>5. RefreshIsFresh'
    BY <1>1, <2>1, <2>2 DEF ControlInv, AnswersAreFresh, RefreshIsFresh
  <2>6. AttemptsBounded'
    BY <2>1, <2>2 DEF ControlInv, AttemptsBounded
  <2> QED BY <2>4, <2>5, <2>6 DEF ControlInv
<1> QED BY <1>4, <1>5, <1>6 DEF IInv, ControlInv, CacheInv

-----------------------------------------------------------------------------
(* Every step is one of the three kinds above, a change of the vault, or a *)
(* stuttering step.                                                        *)
LEMMA StepCases ==
    ASSUME [Next]_vars
    PROVE  \/ VaultChange \/ ProcessStep
           \/ \E w \in Workers :
                 LockSyncMu(w) \/ Send(w) \/ Answer(w) \/ Fail(w)
           \/ \E w \in Workers : Publish(w)
           \/ UNCHANGED vars
BY DEF Next, ProcessStep, syncVault

(* The invariant is inductive.                                             *)
LEMMA StepInv == IInv /\ [Next]_vars => IInv'
<1> SUFFICES ASSUME IInv, [Next]_vars PROVE IInv'
  OBVIOUS
<1>1. CASE VaultChange
  BY <1>1, VaultChangePreserves
<1>2. CASE ProcessStep
  BY <1>2, ProcessStepPreserves
<1>3. CASE \E w \in Workers : LockSyncMu(w) \/ Send(w) \/ Answer(w) \/ Fail(w)
  BY <1>3, FetchPreserves
<1>4. CASE \E w \in Workers : Publish(w)
  BY <1>4, PublishPreserves
<1>5. CASE UNCHANGED vars
  BY <1>5 DEF vars, cacheVars, processVars, countVars, IInv, TypeOK, Newest,
              AttemptsBounded, Serialized, AnswersAreFresh, CacheMatchesVault,
              RetainedAreStale, NamesAgeOnlyInOutage, RefreshIsFresh
<1> QED BY <1>1, <1>2, <1>3, <1>4, <1>5, StepCases

(* The inductive invariant holds in every reachable state.                 *)
THEOREM Invariant == Spec => []IInv
<1>1. Init => IInv
  BY InitInv
<1>2. IInv /\ [Next]_vars => IInv'
  BY StepInv
<1> QED BY <1>1, <1>2, PTL DEF Spec

(* Every variable keeps its kind and the code's bounds.                    *)
THEOREM TypeCorrect == Spec => []TypeOK
<1>1. IInv => TypeOK
  BY DEF IInv
<1> QED BY <1>1, Invariant, PTL

(* The cache is what the last reconciled answer says: current placements,  *)
(* nothing trashed or removed, whatever syncs overlapped.                  *)
THEOREM CacheIsFaithful == Spec => []CacheMatchesVault
<1>1. IInv => CacheMatchesVault
  BY DEF IInv
<1> QED BY <1>1, Invariant, PTL

(* Client.retained counts exactly the entries whose content is stale.      *)
THEOREM RetainedIsExact == Spec => []RetainedAreStale
<1>1. IInv => RetainedAreStale
  BY DEF IInv
<1> QED BY <1>1, Invariant, PTL

(* Name maps and items part only when an answer decrypted nothing.         *)
THEOREM NamesFollowItems == Spec => []NamesAgeOnlyInOutage
<1>1. IInv => NamesAgeOnlyInOutage
  BY DEF IInv
<1> QED BY <1>1, Invariant, PTL

(* A /refresh whose sync succeeded serves nothing older than its arrival.  *)
THEOREM RefreshReachesArrival == Spec => []RefreshIsFresh
<1>1. IInv => RefreshIsFresh
  BY DEF IInv
<1> QED BY <1>1, Invariant, PTL

(* Only publishing changes what is served.                                 *)
LEMMA OnlyPublishServes ==
    ASSUME IInv, [Next]_vars
    PROVE  UNCHANGED cacheVars \/ \E w \in Workers : Publish(w)
<1>1. VaultChange => UNCHANGED cacheVars
  BY DEF VaultChange
<1>2. ProcessStep => UNCHANGED cacheVars
  BY DEF ProcessStep, ServerFlips, Initialize, Authenticated,
         InitializeReturns, Tick, Account, BackgroundStops, Stop,
         RefreshCache, Respond
<1>3. ASSUME NEW w \in Workers,
             LockSyncMu(w) \/ Send(w) \/ Answer(w) \/ Fail(w)
      PROVE  UNCHANGED cacheVars
  BY <1>3 DEF LockSyncMu, Send, Answer, Fail
<1>4. UNCHANGED vars => UNCHANGED cacheVars
  BY DEF vars
<1> QED BY <1>1, <1>2, <1>3, <1>4, StepCases

(* No answer replaces a newer one.                                         *)
THEOREM SyncsAreOrdered == Spec => NoStaleOverwrite
<1>1. ASSUME IInv, [Next]_vars PROVE [seen' >= seen]_vars
  <2>1. seen \in Nat
    BY <1>1 DEF IInv, TypeOK
  <2>2. ASSUME NEW w \in Workers, Publish(w) PROVE seen' >= seen
    <3>1. seen <= snap[w] /\ seen' = snap[w] /\ snap[w] \in 1..Newest
      BY <1>1, <2>2, PublishEffect
    <3> QED BY <2>1, <3>1
  <2>3. UNCHANGED cacheVars => seen' >= seen
    BY <2>1 DEF cacheVars
  <2> QED BY <1>1, <2>2, <2>3, OnlyPublishServes
<1> QED BY <1>1, Invariant, PTL DEF Spec, NoStaleOverwrite

(* An item that is gone from every version since the one being served does *)
(* not come back.                                                          *)
THEOREM NothingIsResurrected == Spec => NoResurrection
<1> DEFINE Gone(c) == /\ seen > 0 /\ cache[c] = NoItem
                      /\ \A i \in seen..Newest : c \notin Live(history[i])
<1>1. ASSUME IInv, [Next]_vars, NEW c \in Ciphers, Gone(c)
      PROVE  cache'[c] = NoItem
  <2>1. ASSUME NEW w \in Workers, Publish(w) PROVE cache'[c] = NoItem
    <3>1. /\ snap[w] \in 1..Newest /\ seen <= snap[w]
          /\ cache' = Reconcile(cache, history[snap[w]])
      BY <1>1, <2>1, PublishEffect
    <3>2. seen \in Nat /\ Newest \in Nat
      BY <1>1 DEF IInv, TypeOK
    <3>3. c \notin Live(history[snap[w]])
      BY <1>1, <3>1, <3>2
    <3> QED BY <3>1, <3>3 DEF Reconcile, Live
  <2>2. UNCHANGED cacheVars => cache'[c] = NoItem
    BY <1>1 DEF cacheVars
  <2> QED BY <1>1, <2>1, <2>2, OnlyPublishServes
<1>2. IInv /\ [Next]_vars =>
        [\A c \in Ciphers : Gone(c) => cache'[c] = NoItem]_vars
  BY <1>1
<1> QED BY <1>2, Invariant, PTL DEF Spec, NoResurrection

(* Once Stop was called and no request is out, none goes out and what is  *)
(* served is final: Client.ctx is cancelled.                               *)
THEOREM StopIsFinal == Spec => StoppedCacheIsFinal
<1>1. ASSUME IInv, [Next]_vars, stopped, NothingIsOut
      PROVE  NothingIsOut' /\ UNCHANGED cacheVars
  <2> USE <1>1 DEF NothingIsOut
  <2>1. \A w \in Workers : ~Publish(w) /\ ~Send(w) /\ ~Answer(w)
    BY DEF Publish, Send, CanSend, Answer
  <2>2. UNCHANGED cacheVars
    BY <2>1, OnlyPublishServes
  <2>3. pc \in [Workers -> {"off", "idle", "auth", "lock", "done"} \cup InSync]
    BY DEF IInv, TypeOK
  <2>4. CASE ~(\E w \in Workers : syncVault(w))
    BY <2>3, <2>4 DEF Next, vars, Goto, VaultChange, ServerFlips, Initialize,
       Authenticated, InitializeReturns, Tick, Account, BackgroundStops,
       Stop, RefreshCache, Respond
  <2>5. CASE \E w \in Workers : LockSyncMu(w) \/ Fail(w)
    BY <2>3, <2>5 DEF LockSyncMu, Fail, Goto
  <2> QED BY <2>1, <2>2, <2>4, <2>5 DEF syncVault
<1>2. IInv /\ [Next]_vars =>
        [stopped /\ NothingIsOut => NothingIsOut' /\ UNCHANGED cacheVars]_vars
  BY <1>1
<1> QED BY <1>2, Invariant, PTL DEF Spec, StoppedCacheIsFinal

(***************************************************************************)
(* What is served was readable.  A retained entry keeps its content, and   *)
(* versions are only ever added, so the version that showed the content    *)
(* stays at or below the one being served.                                 *)
(***************************************************************************)
LEMMA ServedValuesStep ==
    IInv /\ ServedValuesWereReadable /\ [Next]_vars => ServedValuesWereReadable'
<1> SUFFICES ASSUME IInv, ServedValuesWereReadable, [Next]_vars,
                    NEW c \in Ciphers, cache'[c] # NoItem
             PROVE  \E i \in 1..seen' :
                       /\ (history[i][c].state = "open")'
                       /\ (history[i][c].val)' = cache'[c].val
  BY DEF ServedValuesWereReadable
<1>1. /\ history \in Seq(Vault) /\ seen \in 0..Newest /\ Newest = Len(history)
      /\ Newest \in Nat
  BY DEF IInv, TypeOK, Newest
<1>2. CASE UNCHANGED cacheVars
  <2>1. PICK i \in 1..seen : /\ history[i][c].state = "open"
                             /\ history[i][c].val = cache[c].val
    BY <1>2 DEF ServedValuesWereReadable, cacheVars
  <2>2. i \in 1..Len(history)
    BY <1>1
  <2>3. history'[i] = history[i]
    <3>1. CASE VaultChange
      <4>1. PICK v \in NextVaults(history) : history' = Append(history, v)
        BY <3>1 DEF VaultChange
      <4>2. Len(history) >= 1 /\ v \in Vault
        BY <1>1, <2>2, NextVaultType
      <4> QED BY <1>1, <2>2, <4>1, <4>2, AppendProperties
    <3>2. CASE history' = history
      BY <3>2
    <3>3. VaultChange \/ history' = history
      BY DEF Next, syncVault, vars, ServerFlips, Initialize, Authenticated,
             InitializeReturns, Tick, Account, BackgroundStops, Stop,
             RefreshCache, Respond, LockSyncMu, Send, Answer, Fail, Publish
    <3> QED BY <3>1, <3>2, <3>3
  <2> QED BY <1>2, <2>1, <2>3 DEF cacheVars
<1>3. CASE \E w \in Workers : Publish(w)
  <2>1. PICK w \in Workers : Publish(w)
    BY <1>3
  <2> DEFINE vault == history[snap[w]]
  <2>2. /\ snap[w] \in 1..Newest /\ seen <= snap[w] /\ seen' = snap[w]
        /\ history' = history /\ cache' = Reconcile(cache, vault)
    BY <2>1, PublishEffect
  <2>3. CASE c \in Decrypted(vault)
    <3>1. cache'[c].val = vault[c].val /\ vault[c].state = "open"
      BY <2>2, <2>3 DEF Reconcile, ItemOf, Decrypted
    <3> QED BY <1>1, <2>2, <3>1
  <2>4. CASE c \notin Decrypted(vault)
    <3>1. cache[c] # NoItem /\ cache'[c].val = cache[c].val
      BY <2>2, <2>4 DEF Reconcile
    <3>2. PICK i \in 1..seen : /\ history[i][c].state = "open"
                               /\ history[i][c].val = cache[c].val
      BY <3>1 DEF ServedValuesWereReadable
    <3>3. i \in 1..seen'
      BY <1>1, <2>2
    <3> QED BY <2>2, <3>1, <3>2, <3>3
  <2> QED BY <2>3, <2>4
<1> QED BY <1>2, <1>3, OnlyPublishServes

(* No entry, however stale, shows a content this account never could read. *)
THEOREM ServedValuesAreReal == Spec => []ServedValuesWereReadable
<1>1. Init => ServedValuesWereReadable
  BY DEF Init, EmptyCache, ServedValuesWereReadable
<1> QED BY <1>1, ServedValuesStep, Invariant, PTL DEF Spec

(***************************************************************************)
(* Refinement: publishing is the abstract Sync, a change of the vault is   *)
(* itself, and every other step leaves the abstract state alone.           *)
(***************************************************************************)
LEMMA InitRefines == Init => Abstract!Init
BY DEF Init, Abstract!Init, EmptyCache, Abstract!EmptyCache

(* Publishing is SecretCache's Sync, every other step leaves it unchanged  *)
(* or is a change of the vault.                                            *)
LEMMA StepRefines == IInv /\ [Next]_vars => [Abstract!Next]_(Abstract!vars)
<1> SUFFICES ASSUME IInv, [Next]_vars
             PROVE  [Abstract!Next]_(Abstract!vars)
  OBVIOUS
<1>1. CASE \E w \in Workers : Publish(w)
  <2>1. PICK w \in Workers : Publish(w)
    BY <1>1
  <2>2. /\ snap[w] \in 1..Newest /\ seen <= snap[w] /\ seen' = snap[w]
        /\ history' = history
        /\ cache' = Reconcile(cache, history[snap[w]])
        /\ nameMaps' = IF NothingDecrypts(history[snap[w]])
                       THEN nameMaps ELSE snap[w]
    BY <2>1, PublishEffect
  <2>3. snap[w] \in DOMAIN history
    BY <2>2 DEF IInv, TypeOK, Newest
  <2>4. Abstract!Sync(snap[w])
    BY <2>2 DEF Abstract!Sync, Reconcile, Abstract!Reconcile, Decrypted,
                Abstract!Decrypted, FailedCiphers, Abstract!FailedCiphers,
                ItemOf, Abstract!ItemOf, NothingDecrypts,
                Abstract!NothingDecrypts
  <2> QED BY <2>3, <2>4 DEF Abstract!Next
<1>2. CASE VaultChange
  <2>1. Abstract!VaultChange
    BY <1>2 DEF VaultChange, Abstract!VaultChange, Newest, cacheVars,
                NextVaults, Abstract!NextVaults, ChangedEntries,
                Abstract!ChangedEntries, CipherState, Abstract!CipherState
  <2> QED BY <2>1 DEF Abstract!Next
<1>3. CASE UNCHANGED cacheVars /\ history' = history
  BY <1>3 DEF cacheVars, Abstract!vars
<1>4. VaultChange \/ history' = history
  BY DEF Next, syncVault, vars, ServerFlips, Initialize, Authenticated,
         InitializeReturns, Tick, Account, BackgroundStops, Stop,
         RefreshCache, Respond, LockSyncMu, Send, Answer, Fail, Publish
<1> QED BY <1>1, <1>2, <1>3, <1>4, OnlyPublishServes

(* The sync cycle, with its goroutines and locks, implements the cache     *)
(* that is reconciled in one step.                                         *)
THEOREM Implementation == Spec => ImplementsSecretCache
<1> USE DEF ImplementsSecretCache, Abstract!Spec
<1> QED BY InitRefines, StepRefines, Invariant, PTL DEF Spec
=============================================================================
