------------------------ MODULE SecretRequestsProofs ------------------------
(***************************************************************************)
(* Proofs about SecretRequests: what a request is given, for any vaults,   *)
(* names, keys, queries and requests, and however syncs publish between    *)
(* its reads.                                                              *)
(***************************************************************************)
EXTENDS SecretRequests, FiniteSetTheorems, SequenceTheorems,
        WellFoundedInduction, TLAPS

(* Vaults stay vaults.                                                     *)
LEMMA NextVaultType ==
    ASSUME NEW h \in Seq(Vault), Len(h) >= 1, NEW v \in NextVaults(h)
    PROVE  v \in Vault
<1> DEFINE newest == h[Len(h)]
<1>1. newest \in Vault
  BY ElementOfSeq
<1>2. PICK c \in Ciphers :
        \E e \in ChangedEntries(newest[c],
                     \A i \in DOMAIN h : h[i][c].state = "absent") :
            v = [newest EXCEPT ![c] = e]
  BY DEF NextVaults
<1>3. PICK e \in ChangedEntries(newest[c],
                     \A i \in DOMAIN h : h[i][c].state = "absent") :
        v = [newest EXCEPT ![c] = e]
  BY <1>2
<1>4. newest[c] \in Entry
  BY <1>1 DEF Vault
<1>5. e \in Entry
  BY <1>3, <1>4 DEF ChangedEntries, Entry, CipherState
<1> HIDE DEF newest
<1> QED BY <1>1, <1>3, <1>5 DEF Vault

USE IdAssumption

-----------------------------------------------------------------------------
(***************************************************************************)
(* The operators of the lookup.                                            *)
(***************************************************************************)

(* The smallest member, which LookupIDByName and selectMatch rest on.      *)
LEMMA SmallestExists ==
    ASSUME NEW S \in SUBSET Nat, S # {}
    PROVE  \E x \in S : \A y \in S : x <= y
<1>1. PICK x \in S : \A y \in S : ~(<<y, x>> \in OpToRel(<, Nat))
  BY NatLessThanWellFounded, WFMin, Zenon
<1>2. \A y \in S : ~(y < x)
  BY <1>1 DEF OpToRel
<1> QED BY <1>2

(* Min, on sets of naturals.                                               *)
LEMMA MinInSet ==
    ASSUME NEW S \in SUBSET Nat, S # {}
    PROVE  Min(S) \in S
<1>1. \E x \in S : \A y \in S : x =< y
  BY SmallestExists
<1> QED BY <1>1, Zenon DEF Min

(* A name is looked up to an id that has it, or to none.                   *)
LEMMA LookupResult ==
    ASSUME NEW idToName, DOMAIN idToName \subseteq Ids, NEW target
    PROVE  LET id == LookupIDByName(idToName, target)
           IN  \/ id = NoId
               \/ id \in DOMAIN idToName /\ idToName[id] = target
<1> DEFINE matches == {i \in DOMAIN idToName : idToName[i] = target}
<1>1. CASE matches = {}
  BY <1>1 DEF LookupIDByName
<1>2. CASE matches # {}
  <2>1. matches \in SUBSET Nat
    OBVIOUS
  <2>2. Min(matches) \in matches
    BY <1>2, <2>1, MinInSet
  <2> HIDE DEF matches
  <2>3. LookupIDByName(idToName, target) = Min(matches)
    BY <1>2 DEF LookupIDByName, matches
  <2> QED BY <2>2, <2>3 DEF matches
<1> QED BY <1>1, <1>2

(* What a reference of a scope resolves to is referred to by it.           *)
LEMMA ResolvedRefs ==
    ASSUME NEW refs, NEW nameMap, DOMAIN nameMap \subseteq Ids,
           NEW id \in resolveScopeRefs(refs, nameMap)
    PROVE  id \in Ids /\ RefersTo(refs, nameMap, id)
<1>1. PICK ref \in refs : id = resolveRef(ref, nameMap)
  BY DEF resolveScopeRefs
<1>2. id # NoId
  BY DEF resolveScopeRefs
<1>3. CASE ref \in Ids
  BY <1>1, <1>3 DEF resolveRef, RefersTo
<1>4. CASE ref \notin Ids
  <2>1. id = LookupIDByName(nameMap, ref)
    BY <1>1, <1>4 DEF resolveRef
  <2>2. id \in DOMAIN nameMap /\ nameMap[id] = ref
    BY <1>2, <2>1, LookupResult
  <2> QED BY <1>1, <2>2 DEF RefersTo
<1> QED BY <1>3, <1>4

(* The same for a dimension of the query.                                  *)
LEMMA ResolvedDim ==
    ASSUME NEW given, NEW nameMap, DOMAIN nameMap \subseteq Ids,
           NEW id, id = resolveDim(given, nameMap)
    PROVE  /\ id \in IdOrNone
           /\ id # NoId => RefersTo({given}, nameMap, id)
<1>1. CASE given \in IdOrNone
  BY <1>1 DEF resolveDim, RefersTo
<1>2. CASE given \notin IdOrNone
  <2>1. id = LookupIDByName(nameMap, given)
    BY <1>2 DEF resolveDim
  <2> QED BY <2>1, LookupResult DEF RefersTo, IdOrNone
<1> QED BY <1>1, <1>2

(* Of several candidates one is selected.                                  *)
LEMMA SelectedMatch ==
    ASSUME NEW candidates \in SUBSET Ciphers
    PROVE  /\ selectMatch(candidates) \subseteq candidates
           /\ \A c, d \in selectMatch(candidates) : c = d
           /\ candidates # {} => selectMatch(candidates) # {}
<1>1. \A c, d \in selectMatch(candidates) : c = d
  BY DEF selectMatch
<1>2. ASSUME candidates # {} PROVE selectMatch(candidates) # {}
  BY <1>2, SmallestExists DEF selectMatch
<1> QED BY <1>1, <1>2 DEF selectMatch

(* A lookup gives a visible cipher, one at most, and one if an equal name  *)
(* is visible.                                                             *)
LEMMA GetSecretResult ==
    ASSUME NEW items, NEW f, NEW strict
    PROVE  LET winners == GetSecret(items, f, strict)
           IN  /\ winners \subseteq Visible(items, f)
               /\ \A c, d \in winners : c = d
               /\ (\E c \in Visible(items, f) : EqualsName(items[c]))
                    => winners # {}
<1> DEFINE visible == Visible(items, f)
           exact == {c \in visible : EqualsName(items[c])}
           partial == {c \in visible : ContainsName(items[c])}
<1>1. exact \in SUBSET Ciphers /\ partial \in SUBSET Ciphers
  BY DEF Visible
<1>2. GetSecret(items, f, strict) =
          IF exact # {} THEN selectMatch(exact)
          ELSE IF strict THEN {} ELSE selectMatch(partial)
  BY DEF GetSecret
<1>3. exact \subseteq visible /\ partial \subseteq visible
  OBVIOUS
<1>4. ASSUME NEW c \in visible, EqualsName(items[c]) PROVE exact # {}
  BY <1>4
<1> DEFINE winners == GetSecret(items, f, strict)
<1> HIDE DEF exact, partial, visible
<1>5. CASE exact # {}
  <2>1. winners = selectMatch(exact)
    BY <1>2, <1>5
  <2>2. winners \subseteq exact /\ winners # {} /\ \A c, d \in winners : c = d
    BY <1>1, <1>5, <2>1, SelectedMatch
  <2> QED BY <1>3, <2>2 DEF visible
<1>6. CASE exact = {}
  <2>1. winners \in {{}, selectMatch(partial)}
    BY <1>2, <1>6
  <2>2. winners \subseteq partial /\ \A c, d \in winners : c = d
    BY <1>1, <2>1, SelectedMatch
  <2>3. ~ \E c \in visible : EqualsName(items[c])
    BY <1>4, <1>6
  <2> HIDE DEF winners
  <2>4. winners \subseteq visible
    BY <1>3, <2>2
  <2> QED BY <2>2, <2>3, <2>4 DEF visible, winners
<1> QED BY <1>5, <1>6

-----------------------------------------------------------------------------
(***************************************************************************)
(* The inductive invariant.                                                *)
(***************************************************************************)

(* What is served and what it was reconciled with.                         *)
Versions ==
    /\ history \in Seq(Vault) /\ Len(history) >= 1
    /\ labels \in Seq(NameSets) /\ Len(labels) = Len(history)
    /\ cache \in Cache
    /\ seen \in 0..Len(history) /\ nameMaps \in 0..seen

Cached ==
    seen > 0 =>
        \A c \in Ciphers :
            /\ cache[c] # NoItem => cache[c].place = history[seen][c].place
            /\ history[seen][c].state = "open" =>
                  cache[c] = ItemOf(history[seen][c])

(* The store is what the environment says, and the service has started.    *)
Keys ==
    /\ strictMatch \in BOOLEAN
    /\ env \in Environments
    /\ store = loadAPIKeys(env, Unscoped) /\ store # <<>>

Reads == [from : Nat, filterNames : Nat, scopeNames : Nat, items : Nat]
AskedSet == [route : {"none", "get", "list"}, query : Queries \cup {Anything},
             key : Materials \cup {NoKey}, scope : Scope]
Filters == [org : IdOrNone, col : IdOrNone, folder : IdOrNone,
            orgs : SUBSET Ids, cols : SUBSET Ids]
Reasons == {"none", "unauthorized", "bad filter", "denied", "found",
            "empty cache", "not yours", "partial only", "nothing visible",
            "nowhere"}
AnswerSet == [ciphers : SUBSET Ciphers, reason : Reasons]

RequestTypes ==
    /\ pc \in [Requests -> {"idle", "parse", "scope", "lookup", "done"}]
    /\ asked \in [Requests -> AskedSet]
    /\ filter \in [Requests -> Filters]
    /\ answer \in [Requests -> AnswerSet]
    /\ read \in [Requests -> Reads]

(* The scope of a request is that of an entry with its key.                *)
Identified(r) ==
    \E i \in DOMAIN store :
        store[i].key = asked[r].key /\ store[i].scope = asked[r].scope

(* A dimension of the filter that the query asks for is something the      *)
(* query refers to, and the id itself if it asks by id.                    *)
DimResolved(given, id, names) ==
    /\ given # NoId => id # NoId /\ RefersTo({given}, names, id)
    /\ given \in IdOrNone => id = given

Filtered(r) ==
    LET q == asked[r].query
        f == filter[r]
        names == Names(read[r].filterNames)
    IN  /\ read[r].filterNames \in 1..nameMaps
        /\ DimResolved(q.org, f.org, names.orgs)
        /\ DimResolved(q.col, f.col, names.cols)
        /\ DimResolved(q.folder, f.folder, names.folders)

(* A dimension that the scope constrains is constrained in the filter, by  *)
(* what the scope refers to.                                               *)
RefsResolved(refs, ids, names) ==
    /\ refs # {} => ids # {}
    /\ \A id \in ids : RefersTo(refs, names, id)
    /\ refs \cap Ids \subseteq ids
    /\ refs = {} => ids = {}

Scoped(r) ==
    LET names == Names(read[r].scopeNames)
    IN  /\ read[r].scopeNames \in read[r].filterNames..nameMaps
        /\ RefsResolved(asked[r].scope.orgs, filter[r].orgs, names.orgs)
        /\ RefsResolved(asked[r].scope.cols, filter[r].cols, names.cols)

(* What a request was given, and that it was given it if it was there.     *)
Served(r) ==
    /\ read[r].filterNames \in 1..nameMaps
    /\ read[r].scopeNames \in 1..nameMaps
    /\ read[r].items \in 1..seen
    /\ \A c \in answer[r].ciphers :
          /\ WithinScope(asked[r].scope, read[r].scopeNames, Placement(r, c))
          /\ WithinQuery(asked[r].query, read[r].filterNames, Placement(r, c))

NotMissed(r) ==
    \A c \in Ciphers :
        (/\ asked[r].route = "get" /\ answer[r].reason # "unauthorized"
         /\ AsksByIds(asked[r].query)
         /\ \A i \in read[r].from..seen :
               ServableByIds(history[i][c], asked[r].query, asked[r].scope))
        => answer[r].ciphers # {}

RequestInv(r) ==
    /\ pc[r] \in {"idle", "parse", "scope", "lookup"} => answer[r] = NoAnswer
    /\ pc[r] \in {"parse", "scope", "lookup"} => Identified(r)
    /\ pc[r] # "idle" => read[r].from \in 1..seen /\ nameMaps > 0
    /\ pc[r] \in {"scope", "lookup"} => Filtered(r)
    /\ pc[r] = "lookup" => Scoped(r)
    /\ answer[r].ciphers # {} => Identified(r) /\ Served(r)
    /\ pc[r] = "done" => NotMissed(r)

IInv ==
    /\ Versions /\ Cached /\ Keys /\ RequestTypes
    /\ \A r \in Requests : RequestInv(r)

-----------------------------------------------------------------------------
(***************************************************************************)
(* Versions, syncs and keys.                                               *)
(***************************************************************************)
(* What a sync makes of the cache.                                         *)
LEMMA ReconcileResult ==
    ASSUME NEW old \in Cache, NEW vault \in Vault
    PROVE  LET new == Reconcile(old, vault)
           IN  /\ new \in Cache
               /\ \A c \in Ciphers :
                     /\ new[c] # NoItem => new[c].place = vault[c].place
                     /\ vault[c].state = "open" => new[c] = ItemOf(vault[c])
<1> DEFINE new == Reconcile(old, vault)
<1>1. ASSUME NEW c \in Ciphers
      PROVE  /\ new[c] \in Item \cup {NoItem}
             /\ new[c] # NoItem => new[c].place = vault[c].place
             /\ vault[c].state = "open" => new[c] = ItemOf(vault[c])
  <2>1. vault[c] \in Entry /\ old[c] \in Item \cup {NoItem}
    BY DEF Vault, Cache
  <2>2. ItemOf(vault[c]) \in Item /\ ItemOf(vault[c]).place = vault[c].place
    BY <2>1 DEF Entry, Item, ItemOf
  <2>3. CASE c \in Decrypted(vault)
    <3>1. new[c] = ItemOf(vault[c])
      BY <2>3 DEF Reconcile
    <3> QED BY <2>2, <3>1
  <2>4. CASE c \notin Decrypted(vault)
    <3>1. vault[c].state # "open"
      BY <2>4 DEF Decrypted
    <3>2. CASE c \in FailedCiphers(vault) /\ old[c] # NoItem
      <4>1. new[c] = [val |-> old[c].val, place |-> vault[c].place]
        BY <2>4, <3>2 DEF Reconcile
      <4> HIDE DEF new
      <4> QED BY <2>1, <3>1, <3>2, <4>1 DEF Item, Entry
    <3>3. CASE ~(c \in FailedCiphers(vault) /\ old[c] # NoItem)
      <4>1. new[c] = NoItem
        BY <2>4, <3>3 DEF Reconcile
      <4> QED BY <3>1, <4>1
    <3> QED BY <3>2, <3>3
  <2> QED BY <2>3, <2>4
<1>2. new = [c \in Ciphers |-> new[c]]
  BY DEF Reconcile
<1> HIDE DEF new
<1>3. new \in Cache
  BY <1>1, <1>2 DEF Cache
<1> QED BY <1>1, <1>3 DEF new

(* The entries of the store are those listed and the legacy key, and no    *)
(* two of them have one key.                                               *)
LEMMA StoreResult ==
    ASSUME Keys
    PROVE  /\ store \in Seq(KeyEntries)
           /\ \A i \in DOMAIN store : store[i].key \in Long
           /\ \A i, j \in DOMAIN store : store[i].key = store[j].key => i = j
           /\ Listed(env) # Unreadable
           /\ {store[i] : i \in DOMAIN store} =
                 (IF Listed(env) = NotSet THEN {}
                  ELSE {Listed(env)[i] : i \in DOMAIN Listed(env)})
                 \cup (IF env.legacy = NoKey THEN {}
                       ELSE {[key |-> env.legacy, scope |-> Unscoped]})
<1> USE EnvironmentAssumption, KeyAssumption
<1> DEFINE listed == IF Listed(env) = NotSet THEN <<>> ELSE Listed(env)
           legacy == Appended(env, Unscoped)
<1>1. /\ Listed(env) # Unreadable
      /\ store = listed \o legacy /\ Acceptable(store)
  BY DEF Keys, loadAPIKeys
<1>2. listed \in Seq(KeyEntries)
  <2>1. \/ Listed(env) \in {NotSet, Unreadable}
        \/ Listed(env) \in Seq(KeyEntries)
    BY DEF Keys, Listed
  <2>2. <<>> \in Seq(KeyEntries)
    OBVIOUS
  <2> QED BY <1>1, <2>1, <2>2
<1>3. legacy \in Seq(KeyEntries)
  <2>1. Unscoped \in Scope
    BY DEF Unscoped, Scope
  <2>2. env.legacy \in Materials \cup {NoKey}
    BY DEF Keys
  <2>3. CASE env.legacy = NoKey
    BY <2>3 DEF Appended
  <2>4. CASE env.legacy # NoKey
    <3>1. [key |-> env.legacy, scope |-> Unscoped] \in KeyEntries
      BY <2>1, <2>2, <2>4 DEF KeyEntries
    <3> QED BY <2>4, <3>1 DEF Appended
  <2> QED BY <2>3, <2>4
<1>4. {listed[i] : i \in DOMAIN listed} =
         IF Listed(env) = NotSet THEN {}
         ELSE {Listed(env)[i] : i \in DOMAIN Listed(env)}
  <2>1. CASE Listed(env) = NotSet
    <3>1. listed = <<>>
      BY <2>1
    <3> QED BY <2>1, <3>1
  <2>2. CASE Listed(env) # NotSet
    BY <2>2
  <2> QED BY <2>1, <2>2
<1>5. {legacy[i] : i \in DOMAIN legacy} =
         IF env.legacy = NoKey THEN {}
         ELSE {[key |-> env.legacy, scope |-> Unscoped]}
  BY DEF Appended
<1> HIDE DEF listed, legacy
<1>6. /\ store \in Seq(KeyEntries)
      /\ Len(store) = Len(listed) + Len(legacy)
      /\ \A i \in 1..Len(store) :
            store[i] = IF i <= Len(listed) THEN listed[i]
                                           ELSE legacy[i - Len(listed)]
  BY <1>1, <1>2, <1>3, ConcatProperties
<1>7. {store[i] : i \in DOMAIN store} =
         {listed[i] : i \in DOMAIN listed} \cup {legacy[i] : i \in DOMAIN legacy}
  <2>1. ASSUME NEW i \in DOMAIN listed
        PROVE  \E j \in DOMAIN store : store[j] = listed[i]
    <3>1. i \in 1..Len(store) /\ store[i] = listed[i]
      BY <1>2, <1>3, <1>6
    <3> QED BY <1>6, <3>1
  <2>2. ASSUME NEW i \in DOMAIN legacy
        PROVE  \E j \in DOMAIN store : store[j] = legacy[i]
    <3>1. /\ i + Len(listed) \in 1..Len(store)
          /\ store[i + Len(listed)] = legacy[i]
      BY <1>2, <1>3, <1>6
    <3> QED BY <1>6, <3>1
  <2>3. ASSUME NEW j \in DOMAIN store
        PROVE  \/ \E i \in DOMAIN listed : store[j] = listed[i]
               \/ \E i \in DOMAIN legacy : store[j] = legacy[i]
    <3>1. CASE j <= Len(listed)
      BY <1>2, <1>6, <3>1
    <3>2. CASE ~(j <= Len(listed))
      <4>1. j - Len(listed) \in DOMAIN legacy
        BY <1>2, <1>3, <1>6, <3>2
      <4> QED BY <1>6, <3>2, <4>1
    <3> QED BY <3>1, <3>2
  <2> QED BY <2>1, <2>2, <2>3
<1> QED BY <1>1, <1>4, <1>5, <1>6, <1>7 DEF Acceptable

(* The middleware finds an entry with the key, if there is one.            *)
LEMMA MatchResult ==
    ASSUME Keys, NEW k, Matches(store, k) # {}
    PROVE  Match(store, k) \in DOMAIN store /\ store[Match(store, k)].key = k
<1>1. PICK i \in Matches(store, k) : TRUE
  OBVIOUS
<1>2. \A j \in Matches(store, k) : j = i /\ j \in Nat
  BY StoreResult DEF Matches
<1>3. \E m \in Matches(store, k) : \A j \in Matches(store, k) : j <= m
  BY <1>2
<1>4. Match(store, k) \in Matches(store, k)
  BY <1>3, Zenon DEF Match
<1> QED BY <1>4 DEF Matches

-----------------------------------------------------------------------------
(***************************************************************************)
(* Initial states.                                                         *)
(***************************************************************************)
LEMMA InitInv == Init => IInv
<1> SUFFICES ASSUME Init PROVE IInv
  OBVIOUS
<1>1. PICK v \in StartVaults : history = <<v>>
  BY DEF Init, Store!Init
<1>2. PICK names \in NameSets : labels = <<names>>
  BY DEF Init
<1>3. Versions
  <2>1. history \in Seq(Vault) /\ Len(history) = 1
    BY <1>1, StartAssumption
  <2>2. labels \in Seq(NameSets) /\ Len(labels) = 1
    BY <1>2
  <2>3. cache \in Cache
    BY DEF Init, Store!Init, Cache, Store!EmptyCache
  <2>4. seen = 0 /\ nameMaps = 0
    BY DEF Init, Store!Init
  <2> QED BY <2>1, <2>2, <2>3, <2>4 DEF Versions
<1>4. Cached
  BY DEF Init, Store!Init, Cached
<1>5. Keys
  BY DEF Init, Keys
<1>6. RequestTypes
  <2>1. Nothing \in AskedSet
    BY DEF Nothing, AskedSet, Unscoped, Scope
  <2>2. NoFilter \in Filters
    BY DEF NoFilter, Filters, IdOrNone
  <2>3. NoAnswer \in AnswerSet
    BY DEF NoAnswer, AnswerSet, Reasons
  <2>4. Unread \in Reads
    BY DEF Unread, Reads
  <2> QED BY <2>1, <2>2, <2>3, <2>4 DEF Init, RequestTypes
<1>7. ASSUME NEW r \in Requests PROVE RequestInv(r)
  <2>1. pc[r] = "idle" /\ answer[r] = NoAnswer
    BY DEF Init
  <2> QED BY <2>1 DEF RequestInv, NoAnswer
<1> QED BY <1>3, <1>4, <1>5, <1>6, <1>7 DEF IInv

-----------------------------------------------------------------------------
(***************************************************************************)
(* Steps of the vault and of the sync.                                     *)
(***************************************************************************)

(* Versions are added, and what is served comes from later ones.           *)
Grows ==
    /\ Len(history') >= Len(history) /\ seen' >= seen /\ nameMaps' >= nameMaps
    /\ \A i \in 1..Len(history) :
          history'[i] = history[i] /\ labels'[i] = labels[i]

(* What holds of a request survives new versions and syncs: they change    *)
(* nothing it has read.                                                    *)
LEMMA GrowthKeepsRequests ==
    ASSUME IInv, Versions', Grows, UNCHANGED <<configVars, requestVars>>,
           NEW r \in Requests
    PROVE  RequestInv(r)'
<1> USE DEF IInv, Versions, Grows, configVars, requestVars
<1>1. /\ \A i \in 1..nameMaps : i \in 1..nameMaps' /\ Names(i)' = Names(i)
      /\ \A i \in 1..seen : i \in 1..seen' /\ history'[i] = history[i]
  <2>1. /\ nameMaps \in Nat /\ seen \in Nat /\ nameMaps' \in Nat /\ seen' \in Nat
        /\ nameMaps <= seen /\ seen <= Len(history) /\ Len(history) \in Nat
    OBVIOUS
  <2>2. ASSUME NEW i \in 1..nameMaps
        PROVE  i \in 1..nameMaps' /\ Names(i)' = Names(i)
    BY <2>1 DEF Names
  <2>3. ASSUME NEW i \in 1..seen
        PROVE  i \in 1..seen' /\ history'[i] = history[i]
    BY <2>1
  <2> QED BY <2>2, <2>3
<1>2. RequestInv(r) /\ read[r] \in Reads
  BY DEF RequestTypes
<1>3. Identified(r) => Identified(r)'
  BY DEF Identified
<1>4. Filtered(r) => Filtered(r)'
  <2> SUFFICES ASSUME Filtered(r) PROVE Filtered(r)'
    OBVIOUS
  <2>1. read[r].filterNames \in 1..nameMaps
    BY DEF Filtered
  <2>2. /\ read[r].filterNames \in 1..nameMaps'
        /\ Names(read[r].filterNames)' = Names(read[r].filterNames)
    BY <1>1, <2>1 DEF Names
  <2> QED BY <2>2 DEF Filtered, DimResolved, RefersTo
<1>5. Filtered(r) /\ Scoped(r) => Scoped(r)'
  <2> SUFFICES ASSUME Filtered(r), Scoped(r) PROVE Scoped(r)'
    OBVIOUS
  <2>1. /\ read[r].scopeNames \in read[r].filterNames..nameMaps
        /\ read[r].filterNames \in 1..nameMaps
    BY DEF Scoped, Filtered
  <2>2. read[r].scopeNames \in 1..nameMaps
    BY <2>1
  <2>3. Names(read[r].scopeNames)' = Names(read[r].scopeNames)
    BY <1>1, <2>2 DEF Names
  <2>4. read[r].scopeNames \in read[r].filterNames..nameMaps'
    BY <2>1
  <2> QED BY <2>3, <2>4 DEF Scoped, RefsResolved, RefersTo
<1>6. Served(r) => Served(r)'
  <2> SUFFICES ASSUME Served(r) PROVE Served(r)'
    OBVIOUS
  <2>1. /\ read[r].filterNames \in 1..nameMaps
        /\ read[r].scopeNames \in 1..nameMaps /\ read[r].items \in 1..seen
    BY DEF Served
  <2>2. /\ read[r].filterNames \in 1..nameMaps'
        /\ read[r].scopeNames \in 1..nameMaps' /\ read[r].items \in 1..seen'
        /\ Names(read[r].filterNames)' = Names(read[r].filterNames)
        /\ Names(read[r].scopeNames)' = Names(read[r].scopeNames)
        /\ history'[read[r].items] = history[read[r].items]
    BY <1>1, <2>1 DEF Names
  <2> QED BY <2>2 DEF Served, Placement, WithinScope, WithinQuery, RefersTo
<1>7. read[r].from \in 1..seen /\ NotMissed(r) => NotMissed(r)'
  <2>1. /\ asked' = asked /\ answer' = answer /\ read' = read
        /\ seen \in Nat /\ seen' \in Nat /\ seen <= seen'
    OBVIOUS
  <2> HIDE DEF IInv, Versions, Grows, configVars, requestVars
  <2> SUFFICES ASSUME read[r].from \in 1..seen, NotMissed(r),
                      NEW c \in Ciphers,
                      asked[r].route = "get", answer[r].reason # "unauthorized",
                      AsksByIds(asked[r].query),
                      \A i \in read[r].from..seen' :
                         ServableByIds(history'[i][c], asked[r].query, asked[r].scope)
               PROVE  answer[r].ciphers # {}
    BY <2>1 DEF NotMissed, AsksByIds, ServableByIds, EqualsName
  <2>2. ASSUME NEW i \in read[r].from..seen
        PROVE  ServableByIds(history[i][c], asked[r].query, asked[r].scope)
    <3>1. i \in 1..seen /\ i \in read[r].from..seen'
      BY <2>1
    <3> QED BY <1>1, <3>1
  <2> QED BY <2>2 DEF NotMissed
<1>8. /\ read[r].from \in 1..seen => read[r].from \in 1..seen'
      /\ nameMaps > 0 => nameMaps' > 0
  BY <1>1
<1> QED BY <1>2, <1>3, <1>4, <1>5, <1>6, <1>7, <1>8 DEF RequestInv

(* The instance of SecretCache means by its operators what this module     *)
(* means.                                                                  *)
LEMMA SameNextVaults == \A h : Store!NextVaults(h) = NextVaults(h)
BY DEF Store!NextVaults, NextVaults, Store!ChangedEntries, ChangedEntries,
       Store!CipherState, CipherState

(* The operators of SecretCache are those of VaultData.                    *)
LEMMA SameReconcile ==
    \A old, vault :
        /\ Store!Reconcile(old, vault) = Reconcile(old, vault)
        /\ Store!NothingDecrypts(vault) = NothingDecrypts(vault)
BY DEF Store!Reconcile, Reconcile, Store!NothingDecrypts, NothingDecrypts,
       Store!Decrypted, Decrypted, Store!FailedCiphers, FailedCiphers,
       Store!ItemOf, ItemOf

(* New versions, renames and syncs.                                        *)
LEMMA VersionInv == IInv /\ (VaultChange \/ Rename \/ Sync) => IInv'
<1> SUFFICES ASSUME IInv, VaultChange \/ Rename \/ Sync PROVE IInv'
  OBVIOUS
<1>1. Versions /\ Cached
  BY DEF IInv
<1>2. Versions' /\ Grows /\ Cached' /\ UNCHANGED <<configVars, requestVars>>
  <2>1. ASSUME NEW v \in Vault, history' = Append(history, v),
               NEW names \in NameSets, labels' = Append(labels, names),
               UNCHANGED <<cache, nameMaps, seen>>
        PROVE  Versions' /\ Grows /\ Cached'
    <3>1. /\ history' \in Seq(Vault) /\ Len(history') = Len(history) + 1
          /\ \A i \in 1..Len(history) : history'[i] = history[i]
      BY <1>1, <2>1, AppendProperties DEF Versions
    <3>2. /\ labels' \in Seq(NameSets) /\ Len(labels') = Len(labels) + 1
          /\ \A i \in 1..Len(labels) : labels'[i] = labels[i]
      BY <1>1, <2>1, AppendProperties DEF Versions
    <3>3. Versions' /\ Grows
      BY <1>1, <2>1, <3>1, <3>2 DEF Versions, Grows
    <3>4. seen > 0 => history'[seen] = history[seen]
      BY <1>1, <3>1 DEF Versions
    <3>5. Cached'
      BY <1>1, <2>1, <3>4 DEF Cached
    <3> QED BY <3>3, <3>5
  <2>2. CASE VaultChange
    <3>1. PICK v \in NextVaults(history) : history' = Append(history, v)
      BY <2>2, SameNextVaults DEF VaultChange, Store!VaultChange
    <3>2. v \in Vault
      BY <1>1, <3>1, NextVaultType DEF Versions
    <3>3. labels' = Append(labels, labels[Len(labels)]) /\ labels[Len(labels)] \in NameSets
      BY <1>1, <2>2, ElementOfSeq DEF VaultChange, Versions
    <3>4. UNCHANGED <<cache, nameMaps, seen>>
      BY <2>2 DEF VaultChange, Store!VaultChange
    <3> QED BY <2>1, <2>2, <3>1, <3>2, <3>3, <3>4 DEF VaultChange
  <2>3. CASE Rename
    <3>1. PICK names \in NameSets : labels' = Append(labels, names)
      BY <2>3 DEF Rename
    <3>2. history[Len(history)] \in Vault
      BY <1>1, ElementOfSeq DEF Versions
    <3> QED BY <2>1, <2>3, <3>1, <3>2 DEF Rename
  <2>4. CASE Sync
    <3>1. PICK i \in DOMAIN history :
            /\ seen <= i /\ cache' = Reconcile(cache, history[i])
            /\ nameMaps' = IF NothingDecrypts(history[i]) THEN nameMaps ELSE i
            /\ seen' = i /\ UNCHANGED history
      BY <2>4, SameReconcile DEF Sync, Store!Sync
    <3>2. i \in 1..Len(history) /\ history[i] \in Vault
      BY <1>1, <3>1, ElementOfSeq DEF Versions
    <3>3. UNCHANGED <<labels, configVars, requestVars>>
      BY <2>4 DEF Sync
    <3>4. /\ cache' \in Cache
          /\ \A c \in Ciphers :
                /\ cache'[c] # NoItem => cache'[c].place = history[i][c].place
                /\ history[i][c].state = "open" => cache'[c] = ItemOf(history[i][c])
      BY <1>1, <3>1, <3>2, ReconcileResult DEF Versions
    <3>5. Versions' /\ Grows
      BY <1>1, <3>1, <3>2, <3>3, <3>4 DEF Versions, Grows
    <3>6. Cached'
      BY <3>1, <3>4 DEF Cached
    <3> QED BY <3>3, <3>5, <3>6
  <2> QED BY <2>2, <2>3, <2>4
<1>3. Keys' /\ RequestTypes'
  BY <1>2 DEF IInv, Keys, RequestTypes, configVars, requestVars
<1>4. \A r \in Requests : RequestInv(r)'
  BY <1>2, GrowthKeepsRequests
<1> QED BY <1>2, <1>3, <1>4 DEF IInv

-----------------------------------------------------------------------------
(***************************************************************************)
(* Steps of a request.                                                     *)
(***************************************************************************)
requestWorld == <<storeVars, labels, configVars>>

SameFor(s) ==
    /\ pc'[s] = pc[s] /\ asked'[s] = asked[s] /\ filter'[s] = filter[s]
    /\ answer'[s] = answer[s] /\ read'[s] = read[s]

(* It is enough to look at the request that takes the step.                *)
LEMMA RequestStep ==
    ASSUME IInv, UNCHANGED requestWorld, NEW r \in Requests,
           RequestTypes', RequestInv(r)',
           \A s \in Requests \ {r} : SameFor(s)
    PROVE  IInv'
<1> USE DEF requestWorld, storeVars, configVars
<1>1. Versions' /\ Cached' /\ Keys'
  BY DEF IInv, Versions, Cached, Keys
<1>2. ASSUME NEW s \in Requests \ {r} PROVE RequestInv(s)'
  <2>1. RequestInv(s) /\ SameFor(s)
    BY DEF IInv
  <2>2. Identified(s) => Identified(s)'
    BY <2>1 DEF SameFor, Identified
  <2>3. Filtered(s) => Filtered(s)'
    BY <2>1 DEF SameFor, Filtered, Names, DimResolved, RefersTo
  <2>4. Scoped(s) => Scoped(s)'
    BY <2>1 DEF SameFor, Scoped, Names, RefsResolved, RefersTo
  <2>5. Served(s) => Served(s)'
    <3> SUFFICES ASSUME Served(s) PROVE Served(s)'
      OBVIOUS
    <3>1. asked'[s] = asked[s] /\ answer'[s] = answer[s] /\ read'[s] = read[s]
      BY <2>1 DEF SameFor
    <3>2. ASSUME NEW c \in answer'[s].ciphers
          PROVE  /\ WithinScope(asked[s].scope, read[s].scopeNames, Placement(s, c))'
                 /\ WithinQuery(asked[s].query, read[s].filterNames, Placement(s, c))'
      <4>1. /\ WithinScope(asked[s].scope, read[s].scopeNames, Placement(s, c))
            /\ WithinQuery(asked[s].query, read[s].filterNames, Placement(s, c))
        BY <3>1, <3>2 DEF Served
      <4>2. Placement(s, c)' = Placement(s, c)
        BY <3>1 DEF Placement
      <4>3. /\ Names(read[s].scopeNames)' = Names(read[s].scopeNames)
            /\ Names(read[s].filterNames)' = Names(read[s].filterNames)
        BY <3>1 DEF Names
      <4> QED BY <3>1, <4>1, <4>2, <4>3 DEF WithinScope, WithinQuery, RefersTo
    <3>3. /\ (read[s].filterNames \in 1..nameMaps)'
          /\ (read[s].scopeNames \in 1..nameMaps)' /\ (read[s].items \in 1..seen)'
      BY <3>1 DEF Served
    <3> QED BY <3>2, <3>3 DEF Served
  <2>6. NotMissed(s) => NotMissed(s)'
    <3> SUFFICES ASSUME NotMissed(s), NEW c \in Ciphers,
                        (/\ asked[s].route = "get"
                         /\ answer[s].reason # "unauthorized"
                         /\ AsksByIds(asked[s].query)
                         /\ \A i \in read[s].from..seen :
                              ServableByIds(history[i][c], asked[s].query,
                                            asked[s].scope))'
                 PROVE  answer'[s].ciphers # {}
      BY DEF NotMissed
    <3>1. asked'[s] = asked[s] /\ answer'[s] = answer[s] /\ read'[s] = read[s]
      BY <2>1 DEF SameFor
    <3> QED BY <3>1 DEF NotMissed, AsksByIds, ServableByIds, EqualsName
  <2> QED BY <2>1, <2>2, <2>3, <2>4, <2>5, <2>6 DEF RequestInv, SameFor
<1>3. \A s \in Requests : RequestInv(s)'
  BY <1>2
<1> QED BY <1>1, <1>3 DEF IInv

(* The names a request reads have ids of their kind.                       *)
LEMMA NamesType ==
    ASSUME Versions, NEW v \in 0..nameMaps
    PROVE  /\ DOMAIN Names(v).orgs \subseteq Ids
           /\ DOMAIN Names(v).cols \subseteq Ids
           /\ DOMAIN Names(v).folders \subseteq Ids
<1>1. CASE v = 0
  BY <1>1 DEF Names, NoNames
<1>2. CASE v # 0
  <2>1. v \in 1..Len(labels)
    BY <1>2 DEF Versions
  <2>2. labels[v] \in NameSets
    BY <2>1, ElementOfSeq DEF Versions
  <2>3. Names(v) = labels[v]
    BY <1>2 DEF Names
  <2> QED BY <2>2, <2>3, NameAssumption DEF Ids
<1> QED BY <1>1, <1>2

(* The middleware: a known key brings its own scope, an unknown one an     *)
(* answer without items.                                                   *)
LEMMA ArriveInv == ASSUME IInv, NEW r \in Requests, Arrive(r) PROVE IInv'
<1>1. UNCHANGED requestWorld /\ pc[r] = "idle" /\ nameMaps > 0
  BY DEF Arrive, requestWorld
<1>2. PICK route \in {"get", "list"}, q \in Queries, k \in Materials \cup {NoKey} :
         LET found == Matches(store, k)
         IN  /\ asked' = [asked EXCEPT ![r] =
                   [route |-> route, query |-> q, key |-> k,
                    scope |-> IF found = {} THEN Unscoped
                              ELSE store[Match(store, k)].scope]]
             /\ IF found = {}
                THEN /\ answer' = [answer EXCEPT ![r].reason = "unauthorized"]
                     /\ Goto(r, "done")
                ELSE UNCHANGED answer /\ Goto(r, "parse")
  BY DEF Arrive
<1>3. read' = [read EXCEPT ![r].from = seen] /\ UNCHANGED filter
  BY DEF Arrive
<1>4. RequestTypes /\ Versions /\ Keys /\ RequestInv(r) /\ answer[r] = NoAnswer
  BY <1>1 DEF IInv, RequestInv
<1>5. seen \in 1..seen
  BY <1>1, <1>4 DEF Versions
<1>6. read' \in [Requests -> Reads] /\ read'[r].from = seen
  BY <1>3, <1>4, <1>5 DEF RequestTypes, Reads
<1>7. CASE Matches(store, k) = {}
  <2>1. /\ asked' = [asked EXCEPT ![r] = [route |-> route, query |-> q, key |-> k,
                                          scope |-> Unscoped]]
        /\ answer' = [answer EXCEPT ![r].reason = "unauthorized"]
        /\ pc' = [pc EXCEPT ![r] = "done"]
    BY <1>2, <1>7 DEF Goto
  <2>2. Unscoped \in Scope
    BY DEF Unscoped, Scope
  <2>3. asked' \in [Requests -> AskedSet]
    BY <1>4, <2>1, <2>2 DEF RequestTypes, AskedSet
  <2>4. answer' \in [Requests -> AnswerSet]
    BY <1>4, <2>1 DEF RequestTypes, AnswerSet, Reasons
  <2>5. RequestTypes'
    BY <1>3, <1>4, <1>6, <2>1, <2>3, <2>4 DEF RequestTypes
  <2>6. /\ pc'[r] = "done" /\ answer'[r].reason = "unauthorized"
        /\ answer'[r].ciphers = {}
    BY <1>4, <2>1 DEF RequestTypes, AnswerSet, NoAnswer
  <2>7. RequestInv(r)'
    BY <1>1, <1>5, <1>6, <2>6 DEF RequestInv, NotMissed, requestWorld, storeVars
  <2>8. \A s \in Requests \ {r} : SameFor(s)
    BY <1>3, <1>4, <2>1 DEF SameFor, RequestTypes
  <2> QED BY <1>1, <2>5, <2>7, <2>8, RequestStep
<1>8. CASE Matches(store, k) # {}
  <2> DEFINE entry == store[Match(store, k)]
  <2>1. /\ asked' = [asked EXCEPT ![r] = [route |-> route, query |-> q, key |-> k,
                                          scope |-> entry.scope]]
        /\ UNCHANGED answer
        /\ pc' = [pc EXCEPT ![r] = "parse"]
    BY <1>2, <1>8 DEF Goto
  <2>2. Match(store, k) \in DOMAIN store /\ entry.key = k
    BY <1>4, <1>8, MatchResult
  <2>3. entry.scope \in Scope
    <3>1. store \in Seq(KeyEntries)
      BY <1>4, StoreResult
    <3>2. entry \in KeyEntries
      BY <2>2, <3>1
    <3> QED BY <3>2 DEF KeyEntries
  <2> HIDE DEF entry
  <2>4. asked' \in [Requests -> AskedSet]
    BY <1>4, <2>1, <2>3 DEF RequestTypes, AskedSet
  <2>5. RequestTypes'
    BY <1>3, <1>4, <1>6, <2>1, <2>4 DEF RequestTypes
  <2>6. /\ pc'[r] = "parse" /\ asked'[r].key = k /\ asked'[r].scope = entry.scope
        /\ answer'[r] = NoAnswer
    BY <1>4, <2>1 DEF RequestTypes
  <2>7. Identified(r)'
    <3>1. store' = store
      BY <1>1 DEF requestWorld, configVars
    <3> QED BY <2>2, <2>6, <3>1 DEF Identified, entry
  <2>8. RequestInv(r)'
    BY <1>1, <1>5, <1>6, <2>6, <2>7
       DEF RequestInv, NoAnswer, requestWorld, storeVars
  <2>9. \A s \in Requests \ {r} : SameFor(s)
    BY <1>3, <1>4, <2>1 DEF SameFor, RequestTypes
  <2> QED BY <1>1, <2>5, <2>8, <2>9, RequestStep
<1> QED BY <1>7, <1>8

(* A query by ids alone is one that filters can be made of.                *)
LEMMA IdsFit ==
    ASSUME NEW query, AsksByIds(query), NEW names
    PROVE  FilterFits(query, names)
<1>1. \A given \in IdOrNone : \A nameMap :
         given # Malformed /\ (given = NoId \/ resolveDim(given, nameMap) # NoId)
  BY DEF resolveDim
<1> QED BY <1>1 DEF AsksByIds, FilterFits

(* A dimension that fits is resolved to something it refers to.            *)
LEMMA DimIsResolved ==
    ASSUME NEW given, NEW nameMap, DOMAIN nameMap \subseteq Ids,
           given = NoId \/ resolveDim(given, nameMap) # NoId
    PROVE  DimResolved(given, resolveDim(given, nameMap), nameMap)
<1>1. given \in IdOrNone => resolveDim(given, nameMap) = given
  BY DEF resolveDim
<1> QED BY <1>1, ResolvedDim DEF DimResolved

(* parseSecretFilters.                                                     *)
LEMMA ParseFiltersInv ==
    ASSUME IInv, NEW r \in Requests, ParseFilters(r) PROVE IInv'
<1>1. /\ UNCHANGED requestWorld /\ UNCHANGED asked /\ pc[r] = "parse"
      /\ read' = [read EXCEPT ![r].filterNames = nameMaps]
  BY DEF ParseFilters, requestWorld
<1>2. /\ RequestTypes /\ Versions /\ RequestInv(r)
      /\ answer[r] = NoAnswer /\ Identified(r) /\ read[r].from \in 1..seen
      /\ nameMaps > 0
  BY <1>1 DEF IInv, RequestInv
<1>3. /\ read' \in [Requests -> Reads]
      /\ read'[r].from = read[r].from /\ read'[r].filterNames = nameMaps
  <2>1. nameMaps \in Nat /\ read[r] \in Reads
    BY <1>2 DEF RequestTypes, Versions
  <2>2. [read[r] EXCEPT !.filterNames = nameMaps] \in Reads
    BY <2>1 DEF Reads
  <2> QED BY <1>1, <1>2, <2>1, <2>2 DEF RequestTypes, Reads
<1>4. Identified(r)' /\ read'[r].from \in 1..seen' /\ nameMaps' > 0
  BY <1>1, <1>2, <1>3 DEF Identified, requestWorld, configVars, storeVars
<1> DEFINE q == asked[r].query
           names == Names(nameMaps)
<1>5. CASE FilterFits(q, names)
  <2>1. /\ filter' = [filter EXCEPT ![r] = parseSecretFilters(q, names)]
        /\ pc' = [pc EXCEPT ![r] = "scope"] /\ UNCHANGED answer
    BY <1>5 DEF ParseFilters, Goto
  <2>2. /\ DOMAIN names.orgs \subseteq Ids /\ DOMAIN names.cols \subseteq Ids
        /\ DOMAIN names.folders \subseteq Ids
    <3>1. nameMaps \in 0..nameMaps
      BY <1>2 DEF Versions
    <3> QED BY <1>2, <3>1, NamesType
  <2>3. /\ q.org = NoId \/ resolveDim(q.org, names.orgs) # NoId
        /\ q.col = NoId \/ resolveDim(q.col, names.cols) # NoId
        /\ q.folder = NoId \/ resolveDim(q.folder, names.folders) # NoId
    BY <1>5 DEF FilterFits
  <2>4. /\ DimResolved(q.org, resolveDim(q.org, names.orgs), names.orgs)
        /\ DimResolved(q.col, resolveDim(q.col, names.cols), names.cols)
        /\ DimResolved(q.folder, resolveDim(q.folder, names.folders),
                       names.folders)
    BY <2>2, <2>3, DimIsResolved
  <2>5. /\ resolveDim(q.org, names.orgs) \in IdOrNone
        /\ resolveDim(q.col, names.cols) \in IdOrNone
        /\ resolveDim(q.folder, names.folders) \in IdOrNone
    BY <2>2, ResolvedDim
  <2> DEFINE f == parseSecretFilters(q, names)
  <2>6. /\ f \in Filters
        /\ f.org = resolveDim(q.org, names.orgs)
        /\ f.col = resolveDim(q.col, names.cols)
        /\ f.folder = resolveDim(q.folder, names.folders)
    BY <2>5 DEF parseSecretFilters, NoFilter, Filters
  <2> HIDE DEF f
  <2>7. /\ filter' \in [Requests -> Filters] /\ filter'[r] = f
        /\ pc'[r] = "scope"
    BY <1>2, <2>1, <2>6 DEF RequestTypes, f
  <2>8. RequestTypes'
    BY <1>1, <1>2, <1>3, <2>1, <2>7 DEF RequestTypes
  <2>9. Filtered(r)'
    <3>1. nameMaps' = nameMaps /\ nameMaps \in 1..nameMaps /\ asked' = asked
      BY <1>1, <1>2 DEF requestWorld, storeVars, Versions
    <3>2. Names(read[r].filterNames)' = names
      BY <1>1, <1>3 DEF Names, requestWorld
    <3> QED BY <1>3, <2>4, <2>6, <2>7, <3>1, <3>2 DEF Filtered, DimResolved, RefersTo
  <2>10. RequestInv(r)'
    BY <1>1, <1>2, <1>4, <2>1, <2>7, <2>9 DEF RequestInv, NoAnswer
  <2>11. \A s \in Requests \ {r} : SameFor(s)
    BY <1>1, <1>2, <2>1 DEF SameFor, RequestTypes
  <2> QED BY <1>1, <2>8, <2>10, <2>11, RequestStep
<1>6. CASE ~FilterFits(q, names)
  <2>1. /\ answer' = [answer EXCEPT ![r].reason = "bad filter"]
        /\ pc' = [pc EXCEPT ![r] = "done"] /\ UNCHANGED filter
    BY <1>6 DEF ParseFilters, Goto
  <2>2. /\ answer' \in [Requests -> AnswerSet] /\ answer'[r].ciphers = {}
        /\ pc'[r] = "done"
    <3>1. [answer[r] EXCEPT !.reason = "bad filter"] \in AnswerSet
      BY <1>2 DEF RequestTypes, AnswerSet, Reasons
    <3>2. [answer[r] EXCEPT !.reason = "bad filter"].ciphers = {}
      BY <1>2 DEF NoAnswer
    <3> QED BY <1>2, <2>1, <3>1, <3>2 DEF RequestTypes
  <2>3. RequestTypes'
    BY <1>1, <1>2, <1>3, <2>1, <2>2 DEF RequestTypes
  <2>4. ~AsksByIds(asked[r].query)
    BY <1>6, IdsFit
  <2>5. NotMissed(r)'
    BY <1>1, <2>4 DEF NotMissed, AsksByIds
  <2>6. RequestInv(r)'
    BY <1>4, <2>2, <2>5 DEF RequestInv
  <2>7. \A s \in Requests \ {r} : SameFor(s)
    BY <1>1, <1>2, <2>1 DEF SameFor, RequestTypes
  <2> QED BY <1>1, <2>3, <2>6, <2>7, RequestStep
<1> QED BY <1>5, <1>6

(* A dimension of a scope that resolves is resolved to what it refers to.  *)
LEMMA RefsAreResolved ==
    ASSUME NEW refs, NEW nameMap, DOMAIN nameMap \subseteq Ids,
           refs # {} => resolveScopeRefs(refs, nameMap) # {}
    PROVE  /\ resolveScopeRefs(refs, nameMap) \in SUBSET Ids
           /\ RefsResolved(refs, resolveScopeRefs(refs, nameMap), nameMap)
<1> DEFINE ids == resolveScopeRefs(refs, nameMap)
<1>1. \A id \in ids : id \in Ids /\ RefersTo(refs, nameMap, id)
  BY ResolvedRefs
<1>2. refs \cap Ids \subseteq ids
  BY DEF resolveScopeRefs, resolveRef
<1>3. refs = {} => ids = {}
  BY DEF resolveScopeRefs
<1> HIDE DEF ids
<1> QED BY <1>1, <1>2, <1>3 DEF RefsResolved, ids

(* A scope that the placement of a vault's entry lies in, by ids, resolves. *)
LEMMA IdsResolve ==
    ASSUME NEW entry \in Entry, NEW query, NEW scope \in Scope,
           ServableByIds(entry, query, scope), NEW names
    PROVE  ScopeResolves(scope, names)
<1>1. /\ entry.place.org \in Ids \cup {NoId} /\ entry.place.cols \subseteq Ids
      /\ NoId \notin Ids
  <2>1. entry.place \in [org : Orgs \cup {NoId}, cols : SUBSET Cols,
                         folder : Folders \cup {NoId}]
    BY DEF Entry
  <2> QED BY <2>1 DEF Ids
<1>2. \A refs, nameMap : refs \cap Ids \subseteq resolveScopeRefs(refs, nameMap)
  BY DEF resolveScopeRefs, resolveRef
<1>3. scope.orgs # {} => entry.place.org \in scope.orgs \cap Ids
  <2>1. NoId \notin scope.orgs
    BY DEF Scope, Ids
  <2> QED BY <1>1, <2>1 DEF ServableByIds
<1>4. scope.cols # {} => scope.cols \cap entry.place.cols # {}
  BY DEF ServableByIds
<1>5. ASSUME scope.cols # {}
      PROVE  resolveScopeRefs(scope.cols, names.cols) # {}
  <2>1. PICK c \in scope.cols : c \in entry.place.cols
    BY <1>4, <1>5
  <2> QED BY <1>1, <1>2, <2>1
<1> QED BY <1>1, <1>2, <1>3, <1>5 DEF ScopeResolves

(* applyKeyScope.                                                          *)
LEMMA ApplyScopeInv ==
    ASSUME IInv, NEW r \in Requests, ApplyScope(r) PROVE IInv'
<1>1. /\ UNCHANGED requestWorld /\ UNCHANGED asked /\ pc[r] = "scope"
      /\ read' = [read EXCEPT ![r].scopeNames = nameMaps]
  BY DEF ApplyScope, requestWorld
<1>2. /\ RequestTypes /\ Versions /\ RequestInv(r)
      /\ answer[r] = NoAnswer /\ Identified(r) /\ read[r].from \in 1..seen
      /\ nameMaps > 0 /\ Filtered(r)
  BY <1>1 DEF IInv, RequestInv
<1>3. /\ read' \in [Requests -> Reads]
      /\ read'[r].from = read[r].from /\ read'[r].scopeNames = nameMaps
      /\ read'[r].filterNames = read[r].filterNames
  <2>1. nameMaps \in Nat /\ read[r] \in Reads
    BY <1>2 DEF RequestTypes, Versions
  <2>2. [read[r] EXCEPT !.scopeNames = nameMaps] \in Reads
    BY <2>1 DEF Reads
  <2> QED BY <1>1, <1>2, <2>1, <2>2 DEF RequestTypes, Reads
<1>4. Identified(r)' /\ read'[r].from \in 1..seen' /\ nameMaps' > 0
  BY <1>1, <1>2, <1>3 DEF Identified, requestWorld, configVars, storeVars
<1> DEFINE scope == asked[r].scope
           names == Names(nameMaps)
<1>5. CASE ScopeResolves(scope, names)
  <2>1. /\ filter' = [filter EXCEPT ![r] = applyKeyScope(scope, names, filter[r])]
        /\ pc' = [pc EXCEPT ![r] = "lookup"] /\ UNCHANGED answer
    BY <1>5 DEF ApplyScope, Goto
  <2>2. DOMAIN names.orgs \subseteq Ids /\ DOMAIN names.cols \subseteq Ids
    <3>1. nameMaps \in 0..nameMaps
      BY <1>2 DEF Versions
    <3> QED BY <1>2, <3>1, NamesType
  <2> DEFINE orgs == resolveScopeRefs(scope.orgs, names.orgs)
             cols == resolveScopeRefs(scope.cols, names.cols)
             f == applyKeyScope(scope, names, filter[r])
  <2>3. /\ orgs \in SUBSET Ids /\ RefsResolved(scope.orgs, orgs, names.orgs)
        /\ cols \in SUBSET Ids /\ RefsResolved(scope.cols, cols, names.cols)
    BY <1>5, <2>2, RefsAreResolved DEF ScopeResolves
  <2>4. filter[r] \in Filters
    BY <1>2 DEF RequestTypes
  <2>5. f = [filter[r] EXCEPT !.orgs = orgs, !.cols = cols]
    BY DEF applyKeyScope
  <2> HIDE DEF orgs, cols, f
  <2>6. /\ f \in Filters /\ f.orgs = orgs /\ f.cols = cols
        /\ f.org = filter[r].org /\ f.col = filter[r].col
        /\ f.folder = filter[r].folder
    BY <2>3, <2>4, <2>5 DEF Filters
  <2>7. /\ filter' \in [Requests -> Filters] /\ filter'[r] = f
        /\ pc'[r] = "lookup"
    BY <1>2, <2>1, <2>6 DEF RequestTypes, f
  <2>8. RequestTypes'
    BY <1>1, <1>2, <1>3, <2>1, <2>7 DEF RequestTypes
  <2>9. Filtered(r)'
    <3>1. /\ nameMaps' = nameMaps /\ asked' = asked
          /\ Names(read[r].filterNames)' = Names(read[r].filterNames)
      BY <1>1, <1>3 DEF requestWorld, storeVars, Names
    <3> QED BY <1>2, <1>3, <2>6, <2>7, <3>1 DEF Filtered, DimResolved, RefersTo
  <2>10. Scoped(r)'
    <3>1. /\ nameMaps' = nameMaps /\ nameMaps \in Nat /\ asked' = asked
          /\ Names(read[r].scopeNames)' = names
      BY <1>1, <1>2, <1>3 DEF requestWorld, storeVars, Names, Versions
    <3>2. nameMaps \in read[r].filterNames..nameMaps
      BY <1>2, <3>1 DEF Filtered
    <3> QED BY <1>3, <2>3, <2>6, <2>7, <3>1, <3>2 DEF Scoped, RefsResolved, RefersTo
  <2>11. RequestInv(r)'
    BY <1>1, <1>2, <1>4, <2>1, <2>7, <2>9, <2>10 DEF RequestInv, NoAnswer
  <2>12. \A s \in Requests \ {r} : SameFor(s)
    BY <1>1, <1>2, <2>1 DEF SameFor, RequestTypes
  <2> QED BY <1>1, <2>8, <2>11, <2>12, RequestStep
<1>6. CASE ~ScopeResolves(scope, names)
  <2>1. /\ answer' = [answer EXCEPT ![r].reason = "denied"]
        /\ pc' = [pc EXCEPT ![r] = "done"] /\ UNCHANGED filter
    BY <1>6 DEF ApplyScope, Goto
  <2>2. /\ answer' \in [Requests -> AnswerSet] /\ answer'[r].ciphers = {}
        /\ pc'[r] = "done"
    <3>1. [answer[r] EXCEPT !.reason = "denied"] \in AnswerSet
      BY <1>2 DEF RequestTypes, AnswerSet, Reasons
    <3>2. [answer[r] EXCEPT !.reason = "denied"].ciphers = {}
      BY <1>2 DEF NoAnswer
    <3> QED BY <1>2, <2>1, <3>1, <3>2 DEF RequestTypes
  <2>3. RequestTypes'
    BY <1>1, <1>2, <1>3, <2>1, <2>2 DEF RequestTypes
  <2>4. NotMissed(r)'
    <3>1. asked' = asked /\ history' = history /\ seen' = seen
      BY <1>1 DEF requestWorld, storeVars
    <3>2. ASSUME NEW c \in Ciphers
          PROVE  ~ServableByIds(history[seen][c], asked[r].query, scope)
      <4>1. seen \in 1..Len(history)
        BY <1>2 DEF Versions
      <4>2. history[seen] \in Vault
        BY <1>2, <4>1, ElementOfSeq DEF Versions
      <4>3. history[seen][c] \in Entry /\ scope \in Scope
        BY <1>2, <4>2 DEF Vault, RequestTypes, AskedSet
      <4> QED BY <1>6, <4>3, IdsResolve
    <3>3. seen \in read'[r].from..seen
      BY <1>2, <1>3 DEF Versions
    <3> QED BY <3>1, <3>2, <3>3 DEF NotMissed, ServableByIds, EqualsName
  <2>5. RequestInv(r)'
    BY <1>4, <2>2, <2>4 DEF RequestInv
  <2>6. \A s \in Requests \ {r} : SameFor(s)
    BY <1>1, <1>2, <2>1 DEF SameFor, RequestTypes
  <2> QED BY <1>1, <2>3, <2>5, <2>6, RequestStep
<1> QED BY <1>5, <1>6

(* What the filter lets through lies in the scope and where the query asks. *)
LEMMA VisibleIsServed ==
    ASSUME IInv, NEW r \in Requests, pc[r] = "lookup",
           NEW c \in Visible(cache, filter[r])
    PROVE  /\ WithinScope(asked[r].scope, read[r].scopeNames,
                          history[seen][c].place)
           /\ WithinQuery(asked[r].query, read[r].filterNames,
                          history[seen][c].place)
<1> DEFINE f == filter[r]
           place == cache[c].place
<1>1. /\ Filtered(r) /\ Scoped(r) /\ read[r].from \in 1..seen
      /\ Versions /\ Cached
  BY DEF IInv, RequestInv
<1>2. c \in Ciphers /\ cache[c] # NoItem /\ matchesSecretFilter(cache[c], f)
  BY DEF Visible
<1>3. place = history[seen][c].place
  BY <1>1, <1>2 DEF Cached, Versions
<1>4. /\ f.org # NoId => place.org = f.org
      /\ f.col # NoId => f.col \in place.cols
      /\ f.folder # NoId => place.folder = f.folder
      /\ f.orgs # {} => place.org \in f.orgs
      /\ f.cols # {} => place.cols \cap f.cols # {}
  BY <1>2 DEF matchesSecretFilter
<1> HIDE DEF f, place
<1>5. WithinScope(asked[r].scope, read[r].scopeNames, place)
  <2>1. /\ RefsResolved(asked[r].scope.orgs, f.orgs, Names(read[r].scopeNames).orgs)
        /\ RefsResolved(asked[r].scope.cols, f.cols, Names(read[r].scopeNames).cols)
    BY <1>1 DEF Scoped, f
  <2>2. asked[r].scope.orgs # {} =>
           RefersTo(asked[r].scope.orgs, Names(read[r].scopeNames).orgs, place.org)
    BY <1>4, <2>1 DEF RefsResolved
  <2>3. asked[r].scope.cols # {} =>
           \E k \in place.cols :
              RefersTo(asked[r].scope.cols, Names(read[r].scopeNames).cols, k)
    BY <1>4, <2>1 DEF RefsResolved
  <2> QED BY <2>2, <2>3 DEF WithinScope
<1>6. WithinQuery(asked[r].query, read[r].filterNames, place)
  <2> DEFINE q == asked[r].query
             names == Names(read[r].filterNames)
  <2>1. /\ DimResolved(q.org, f.org, names.orgs)
        /\ DimResolved(q.col, f.col, names.cols)
        /\ DimResolved(q.folder, f.folder, names.folders)
    BY <1>1 DEF Filtered, f
  <2>2. q.org # NoId => RefersTo({q.org}, names.orgs, place.org)
    BY <1>4, <2>1 DEF DimResolved
  <2>3. q.col # NoId => \E k \in place.cols : RefersTo({q.col}, names.cols, k)
    BY <1>4, <2>1 DEF DimResolved
  <2>4. q.folder # NoId => RefersTo({q.folder}, names.folders, place.folder)
    BY <1>4, <2>1 DEF DimResolved
  <2> QED BY <2>2, <2>3, <2>4 DEF WithinQuery
<1> QED BY <1>3, <1>5, <1>6

(* An item that lies there by ids alone gets through.                      *)
LEMMA StableIsVisible ==
    ASSUME IInv, NEW r \in Requests, pc[r] = "lookup", NEW c \in Ciphers,
           AsksByIds(asked[r].query),
           ServableByIds(history[seen][c], asked[r].query, asked[r].scope)
    PROVE  c \in Visible(cache, filter[r]) /\ EqualsName(cache[c])
<1> DEFINE f == filter[r]
           q == asked[r].query
           scope == asked[r].scope
           entry == history[seen][c]
<1>1. /\ Filtered(r) /\ Scoped(r) /\ read[r].from \in 1..seen
      /\ Versions /\ Cached /\ RequestTypes
  BY DEF IInv, RequestInv
<1>2. seen \in 1..Len(history)
  BY <1>1 DEF Versions
<1>3. entry \in Entry
  <2>1. history[seen] \in Vault
    BY <1>1, <1>2, ElementOfSeq DEF Versions
  <2> QED BY <2>1 DEF Vault
<1>4. cache[c] = ItemOf(entry)
  BY <1>1, <1>2 DEF Cached, ServableByIds
<1>5. cache[c] # NoItem /\ cache[c].val = entry.val /\ cache[c].place = entry.place
  <2>1. ItemOf(entry) \in Item
    BY <1>3 DEF Entry, Item, ItemOf
  <2> QED BY <1>4, <2>1, NoItemAssumption DEF ItemOf
<1>6. EqualsName(cache[c])
  BY <1>5 DEF ServableByIds, EqualsName
<1>7. f.org = q.org /\ f.col = q.col /\ f.folder = q.folder
  BY <1>1 DEF Filtered, DimResolved, AsksByIds
<1>8. /\ entry.place.org \in Ids \cup {NoId} /\ entry.place.cols \subseteq Ids
      /\ scope \in Scope
  <2>1. entry.place \in [org : Orgs \cup {NoId}, cols : SUBSET Cols,
                         folder : Folders \cup {NoId}]
    BY <1>3 DEF Entry
  <2> QED BY <1>1, <2>1 DEF Ids, RequestTypes, AskedSet
<1>9. /\ RefsResolved(scope.orgs, f.orgs, Names(read[r].scopeNames).orgs)
      /\ RefsResolved(scope.cols, f.cols, Names(read[r].scopeNames).cols)
  BY <1>1 DEF Scoped
<1>10. NoId \notin scope.orgs
  BY <1>8 DEF Scope, Ids
<1> HIDE DEF f, q, scope, entry
<1>11. /\ q.org \in {NoId, entry.place.org}
       /\ q.col \in {NoId} \cup entry.place.cols
       /\ q.folder \in {NoId, entry.place.folder}
       /\ scope.orgs = {} \/ entry.place.org \in scope.orgs
       /\ scope.cols = {} \/ scope.cols \cap entry.place.cols # {}
  BY DEF ServableByIds, q, scope, entry
<1>12. f.orgs # {} => entry.place.org \in f.orgs
  BY <1>8, <1>9, <1>10, <1>11 DEF RefsResolved
<1>13. f.cols # {} => entry.place.cols \cap f.cols # {}
  <2> SUFFICES ASSUME f.cols # {} PROVE entry.place.cols \cap f.cols # {}
    OBVIOUS
  <2>1. scope.cols # {}
    BY <1>9 DEF RefsResolved
  <2>2. PICK k \in scope.cols : k \in entry.place.cols
    BY <1>11, <2>1
  <2>3. k \in f.cols
    BY <1>8, <1>9, <2>2 DEF RefsResolved
  <2> QED BY <2>2, <2>3
<1>14. matchesSecretFilter(cache[c], f)
  BY <1>5, <1>7, <1>11, <1>12, <1>13 DEF matchesSecretFilter
<1> QED BY <1>5, <1>6, <1>14 DEF Visible, f

(* Whatever was counted, there is a reason for it.                         *)
LEMMA DiagnosisType == \A e, strict : Diagnosis(e, strict) \in Reasons
BY DEF Diagnosis, Reasons

(* Both routes end with what the lookup found.                             *)
LEMMA FoundInv ==
    ASSUME IInv, NEW r \in Requests, pc[r] = "lookup",
           NEW ciphers \in SUBSET Visible(cache, filter[r]), Found(r, ciphers),
           asked[r].route = "get" =>
              ((\E c \in Visible(cache, filter[r]) : EqualsName(cache[c]))
                 => ciphers # {})
    PROVE  IInv'
<1>1. /\ UNCHANGED requestWorld /\ UNCHANGED <<asked, filter>>
      /\ read' = [read EXCEPT ![r].items = seen]
      /\ pc' = [pc EXCEPT ![r] = "done"]
  BY DEF Found, Goto, requestWorld
<1>2. PICK reason \in Reasons :
         answer' = [answer EXCEPT ![r] = [ciphers |-> ciphers, reason |-> reason]]
  <2>1. "found" \in Reasons
    BY DEF Reasons
  <2> QED BY <2>1, DiagnosisType DEF Found
<1>3. /\ RequestTypes /\ Versions /\ RequestInv(r) /\ Identified(r)
      /\ read[r].from \in 1..seen /\ nameMaps > 0 /\ Filtered(r) /\ Scoped(r)
  BY DEF IInv, RequestInv
<1>4. /\ read' \in [Requests -> Reads] /\ read'[r].items = seen
      /\ read'[r].from = read[r].from
      /\ read'[r].filterNames = read[r].filterNames
      /\ read'[r].scopeNames = read[r].scopeNames
  <2>1. seen \in Nat /\ read[r] \in Reads
    BY <1>3 DEF RequestTypes, Versions
  <2>2. [read[r] EXCEPT !.items = seen] \in Reads
    BY <2>1 DEF Reads
  <2> QED BY <1>1, <1>3, <2>1, <2>2 DEF RequestTypes, Reads
<1>5. /\ answer' \in [Requests -> AnswerSet] /\ answer'[r].ciphers = ciphers
      /\ pc'[r] = "done"
  <2>1. ciphers \in SUBSET Ciphers
    BY DEF Visible
  <2> QED BY <1>1, <1>2, <1>3, <2>1 DEF RequestTypes, AnswerSet
<1>6. RequestTypes'
  BY <1>1, <1>3, <1>4, <1>5 DEF RequestTypes
<1>7. Identified(r)' /\ read'[r].from \in 1..seen' /\ nameMaps' > 0
  BY <1>1, <1>3, <1>4 DEF Identified, requestWorld, configVars, storeVars
<1>8. Served(r)'
  <2>1. nameMaps' = nameMaps /\ seen' = seen /\ history' = history /\ asked' = asked
    BY <1>1 DEF requestWorld, storeVars
  <2>2. /\ read[r].filterNames \in 1..nameMaps
        /\ read[r].scopeNames \in 1..nameMaps /\ seen \in 1..seen
    BY <1>3 DEF Filtered, Scoped, Versions
  <2>3. /\ Names(read[r].filterNames)' = Names(read[r].filterNames)
        /\ Names(read[r].scopeNames)' = Names(read[r].scopeNames)
    BY <1>1, <1>4 DEF Names, requestWorld
  <2>4. ASSUME NEW c \in ciphers
        PROVE  /\ WithinScope(asked[r].scope, read[r].scopeNames, Placement(r, c))'
               /\ WithinQuery(asked[r].query, read[r].filterNames, Placement(r, c))'
    <3>1. /\ WithinScope(asked[r].scope, read[r].scopeNames, history[seen][c].place)
          /\ WithinQuery(asked[r].query, read[r].filterNames, history[seen][c].place)
      BY VisibleIsServed
    <3>2. Placement(r, c)' = history[seen][c].place
      BY <1>4, <2>1 DEF Placement
    <3> QED BY <1>4, <2>1, <2>3, <3>1, <3>2 DEF WithinScope, WithinQuery, RefersTo
  <2> QED BY <1>4, <1>5, <2>1, <2>2, <2>4 DEF Served
<1>9. NotMissed(r)'
  <2>1. asked' = asked /\ history' = history /\ seen' = seen
    BY <1>1 DEF requestWorld, storeVars
  <2>2. ASSUME NEW c \in Ciphers, asked[r].route = "get",
               AsksByIds(asked[r].query),
               ServableByIds(history[seen][c], asked[r].query, asked[r].scope)
        PROVE  ciphers # {}
    BY <2>2, StableIsVisible
  <2>3. seen \in read'[r].from..seen
    BY <1>3, <1>4 DEF Versions
  <2> QED BY <1>5, <2>1, <2>2, <2>3 DEF NotMissed, AsksByIds, ServableByIds,
                                       EqualsName
<1>10. RequestInv(r)'
  BY <1>5, <1>7, <1>8, <1>9 DEF RequestInv
<1>11. \A s \in Requests \ {r} : SameFor(s)
  BY <1>1, <1>2, <1>3 DEF SameFor, RequestTypes
<1> QED BY <1>1, <1>6, <1>10, <1>11, RequestStep

(* GetSecret and ListSecrets.                                              *)
LEMMA LookupInv ==
    ASSUME IInv, NEW r \in Requests, Get(r) \/ List(r) PROVE IInv'
<1>1. CASE Get(r)
  <2> DEFINE winners == GetSecret(cache, filter[r], strictMatch)
  <2>1. pc[r] = "lookup" /\ asked[r].route = "get"
    BY <1>1 DEF Get
  <2>2. PICK found \in IF winners = {} THEN {{}} ELSE {{c} : c \in winners} :
           Found(r, found)
    BY <1>1 DEF Get
  <2>3. /\ winners \subseteq Visible(cache, filter[r])
        /\ (\E c \in Visible(cache, filter[r]) : EqualsName(cache[c]))
              => winners # {}
    BY GetSecretResult
  <2> HIDE DEF winners
  <2>4. found \subseteq winners /\ (winners # {} => found # {})
    BY <2>2
  <2> QED BY <2>1, <2>2, <2>3, <2>4, FoundInv
<1>2. CASE List(r)
  <2>1. /\ pc[r] = "lookup" /\ asked[r].route = "list"
        /\ Found(r, Visible(cache, filter[r]))
    BY <1>2 DEF List, ListSecrets
  <2> QED BY <2>1, FoundInv
<1> QED BY <1>1, <1>2

(* The answer is sent and the handler is free.                             *)
LEMMA RespondInv == ASSUME IInv, NEW r \in Requests, Respond(r) PROVE IInv'
<1>1. /\ UNCHANGED requestWorld
      /\ asked' = [asked EXCEPT ![r] = Nothing]
      /\ filter' = [filter EXCEPT ![r] = NoFilter]
      /\ answer' = [answer EXCEPT ![r] = NoAnswer]
      /\ read' = [read EXCEPT ![r] = Unread]
      /\ pc' = [pc EXCEPT ![r] = "idle"]
  BY DEF Respond, Goto, requestWorld
<1>2. RequestTypes
  BY DEF IInv
<1>3. Nothing \in AskedSet /\ NoFilter \in Filters
  BY DEF Nothing, AskedSet, Unscoped, Scope, NoFilter, Filters, IdOrNone
<1>4. NoAnswer \in AnswerSet /\ Unread \in Reads
  BY DEF NoAnswer, AnswerSet, Reasons, Unread, Reads
<1>5. RequestTypes'
  BY <1>1, <1>2, <1>3, <1>4 DEF RequestTypes
<1>6. pc'[r] = "idle" /\ answer'[r] = NoAnswer
  BY <1>1, <1>2 DEF RequestTypes
<1>7. RequestInv(r)'
  BY <1>6 DEF RequestInv, NoAnswer
<1>8. \A s \in Requests \ {r} : SameFor(s)
  BY <1>1, <1>2 DEF SameFor, RequestTypes
<1> QED BY <1>1, <1>5, <1>7, <1>8, RequestStep

(* Nothing happens.                                                        *)
LEMMA StutterInv == ASSUME IInv, UNCHANGED vars PROVE IInv'
<1> USE DEF vars, storeVars, configVars, requestVars
<1>1. Versions' /\ Cached' /\ Keys' /\ RequestTypes'
  BY DEF IInv, Versions, Cached, Keys, RequestTypes
<1>2. Grows
  BY DEF IInv, Versions, Grows
<1>3. \A r \in Requests : RequestInv(r)'
  BY <1>1, <1>2, GrowthKeepsRequests
<1> QED BY <1>1, <1>3 DEF IInv

(* IInv is inductive.                                                      *)
LEMMA Invariance == Spec => []IInv
<1>1. IInv /\ [Next]_vars => IInv'
  <2> SUFFICES ASSUME IInv, [Next]_vars PROVE IInv'
    OBVIOUS
  <2>1. CASE VaultChange \/ Rename \/ Sync
    BY <2>1, VersionInv
  <2>2. ASSUME NEW r \in Requests,
               \/ Arrive(r) \/ ParseFilters(r) \/ ApplyScope(r)
               \/ Get(r) \/ List(r) \/ Respond(r)
        PROVE  IInv'
    BY <2>2, ArriveInv, ParseFiltersInv, ApplyScopeInv, LookupInv, RespondInv
  <2>3. CASE UNCHANGED vars
    BY <2>3, StutterInv
  <2> QED BY <2>1, <2>2, <2>3 DEF Next
<1> QED BY <1>1, InitInv, PTL DEF Spec

-----------------------------------------------------------------------------
(***************************************************************************)
(* The theorems.                                                           *)
(***************************************************************************)

(* Requests read versions in the order in which they read them, and every  *)
(* variable keeps to its kind.                                             *)
THEOREM TypeCorrect == Spec => []TypeOK
<1>1. IInv => TypeOK
  BY DEF IInv, Versions, Keys, RequestTypes, RequestInv, Filtered, Scoped, TypeOK,
         AskedSet, Filters, AnswerSet
<1> QED BY <1>1, Invariance, PTL

(* No item is ever returned from outside the scope of the key, as it was   *)
(* resolved for this request.                                              *)
THEOREM WithinScopeAlways == Spec => []ServedWithinScope
<1>1. IInv => ServedWithinScope
  BY DEF IInv, RequestInv, Served, ServedWithinScope
<1> QED BY <1>1, Invariance, PTL

(* No item is ever returned from elsewhere than the query asks for.        *)
THEOREM WithinQueryAlways == Spec => []ServedMatchesQuery
<1>1. IInv => ServedMatchesQuery
  BY DEF IInv, RequestInv, Served, ServedMatchesQuery
<1> QED BY <1>1, Invariance, PTL

(* Which of several matching items is given is determined, and it is       *)
(* listed under the same filter.                                           *)
THEOREM AnswersAreDetermined == Spec => []AnswerIsDetermined
<1>1. AnswerIsDetermined
  BY GetSecretResult DEF AnswerIsDetermined, ListSecrets
<1> QED BY <1>1, PTL

(* A request gets the scope that was configured beside its key.            *)
THEOREM ScopeFollowsKey == Spec => []ScopeIsTheKeys
<1>1. ASSUME IInv, NEW r \in Requests, Identified(r)
      PROVE  LET listed == IF Listed(env) = NotSet THEN {}
                           ELSE {Listed(env)[i] : i \in DOMAIN Listed(env)}
                 given == {entry.scope : entry \in
                             {e \in listed : e.key = asked[r].key}}
             IN  /\ asked[r].key \in Long
                 /\ given \cup (IF env.legacy = asked[r].key THEN {Unscoped} ELSE {})
                       = {asked[r].scope}
  <2> DEFINE listed == IF Listed(env) = NotSet THEN {}
                       ELSE {Listed(env)[i] : i \in DOMAIN Listed(env)}
             legacy == IF env.legacy = NoKey THEN {}
                       ELSE {[key |-> env.legacy, scope |-> Unscoped]}
             key == asked[r].key
  <2>1. PICK i \in DOMAIN store :
           store[i].key = key /\ store[i].scope = asked[r].scope
    BY <1>1 DEF Identified
  <2>2. /\ \A j \in DOMAIN store : store[j].key \in Long
        /\ \A j, k \in DOMAIN store : store[j].key = store[k].key => j = k
        /\ {store[j] : j \in DOMAIN store} = listed \cup legacy
    BY <1>1, StoreResult DEF IInv
  <2>3. key \in Long /\ key # NoKey
    BY <2>1, <2>2, KeyAssumption
  <2> HIDE DEF listed
  <2>4. ASSUME NEW e \in listed \cup legacy, e.key = key
        PROVE  e.scope = asked[r].scope
    BY <2>1, <2>2, <2>4
  <2>5. /\ store[i] \in listed \cup legacy
        /\ store[i].key = key /\ store[i].scope = asked[r].scope
    BY <2>1, <2>2
  <2>6. env.legacy = key => [key |-> env.legacy, scope |-> Unscoped] \in legacy
    BY <2>3
  <2>7. \A e \in legacy : e.key = env.legacy /\ e.scope = Unscoped
    OBVIOUS
  <2> HIDE DEF legacy
  <2>8. env.legacy = key => Unscoped = asked[r].scope
    BY <2>4, <2>6, <2>7
  <2>9. \/ \E e \in listed : e.key = key /\ e.scope = asked[r].scope
        \/ env.legacy = key
    BY <2>5, <2>7
  <2> DEFINE given == {entry.scope : entry \in {e \in listed : e.key = key}}
  <2>10. given \subseteq {asked[r].scope}
    BY <2>4
  <2>11. asked[r].scope \in given \/ env.legacy = key
    BY <2>9
  <2>12. given \cup (IF env.legacy = key THEN {Unscoped} ELSE {}) = {asked[r].scope}
    BY <2>8, <2>10, <2>11
  <2> QED BY <2>3, <2>12 DEF listed
<1>2. IInv => ScopeIsTheKeys
  BY <1>1 DEF IInv, RequestInv, ScopeIsTheKeys
<1> QED BY <1>2, Invariance, PTL

(* An item that stays readable and in place is not missed, however syncs   *)
(* publish between the reads of the request.                               *)
THEOREM StableItemsAreFound == Spec => []NoTransientMiss
<1>1. IInv => NoTransientMiss
  BY DEF IInv, RequestInv, NotMissed, NoTransientMiss
<1> QED BY <1>1, Invariance, PTL

(* A lookup finds nothing unless something visible matches by name.        *)
LEMMA GetSecretFinds ==
    ASSUME NEW items, NEW f, NEW strict
    PROVE  GetSecret(items, f, strict) # {} <=>
              \E c \in Visible(items, f) :
                  EqualsName(items[c]) \/ (~strict /\ ContainsName(items[c]))
<1> DEFINE visible == Visible(items, f)
           exact == {c \in visible : EqualsName(items[c])}
           partial == {c \in visible : ContainsName(items[c])}
<1>1. exact \in SUBSET Ciphers /\ partial \in SUBSET Ciphers
  BY DEF Visible
<1>2. GetSecret(items, f, strict) =
          IF exact # {} THEN selectMatch(exact)
          ELSE IF strict THEN {} ELSE selectMatch(partial)
  BY DEF GetSecret
<1>3. \A c : c \in exact <=> c \in visible /\ EqualsName(items[c])
  OBVIOUS
<1>4. \A c : c \in partial <=> c \in visible /\ ContainsName(items[c])
  OBVIOUS
<1> HIDE DEF exact, partial, visible
<1>5. /\ selectMatch(exact) # {} <=> exact # {}
      /\ selectMatch(partial) # {} <=> partial # {}
  BY <1>1, SelectedMatch
<1> QED BY <1>2, <1>3, <1>4, <1>5 DEF visible

(* The reason of a miss is the scope or the filters exactly if some item   *)
(* of the cache counts as servable.                                        *)
LEMMA MissReason ==
    ASSUME IInv, IsFiniteSet(Ciphers), NEW f,
           GetSecret(cache, f, strictMatch) = {}
    PROVE  Diagnosis(lookupFailure(cache, f, strictMatch), strictMatch) = "not yours"
              <=> \E c \in Visible(cache, NoFilter) : Servable(cache[c], strictMatch)
<1> DEFINE cached == {c \in Ciphers : cache[c] # NoItem}
           visible == Visible(cache, f)
           hidden == {c \in cached \ visible : Servable(cache[c], strictMatch)}
           e == lookupFailure(cache, f, strictMatch)
<1>1. e.cached = Cardinality(cached) /\ e.hiddenNameMatches = Cardinality(hidden)
  BY DEF lookupFailure
<1>2. IsFiniteSet(cached) /\ IsFiniteSet(hidden)
  <2>1. cached \subseteq Ciphers /\ hidden \subseteq Ciphers
    OBVIOUS
  <2> HIDE DEF cached, hidden
  <2> QED BY <2>1, FS_Subset
<1>3. Diagnosis(e, strictMatch) = "not yours" <=> cached # {} /\ hidden # {}
  <2> HIDE DEF cached, hidden, e
  <2>1. /\ Cardinality(cached) = 0 <=> cached = {}
        /\ Cardinality(hidden) = 0 <=> hidden = {}
        /\ Cardinality(hidden) \in Nat
    BY <1>2, FS_EmptySet, FS_CardinalityType
  <2> QED BY <1>1, <2>1 DEF Diagnosis
<1>4. Visible(cache, NoFilter) = cached
  BY DEF Visible, matchesSecretFilter, NoFilter
<1>5. \A c \in visible : ~Servable(cache[c], strictMatch)
  <2>1. \A c \in visible : /\ ~EqualsName(cache[c])
                           /\ strictMatch \/ ~ContainsName(cache[c])
    BY GetSecretFinds
  <2> QED BY <2>1 DEF Servable
<1>6. hidden # {} <=> \E c \in cached : Servable(cache[c], strictMatch)
  <2> HIDE DEF visible, cached
  <2>1. hidden # {} <=>
           \E c \in cached \ visible : Servable(cache[c], strictMatch)
    OBVIOUS
  <2> QED BY <1>5, <2>1
<1>7. hidden # {} => cached # {}
  OBVIOUS
<1> QED BY <1>3, <1>4, <1>6, <1>7

(* What counts as servable the lookup finds, and what it finds counts,     *)
(* unless partial matching is on and nothing in the cache contains the     *)
(* requested name.                                                         *)
LEMMA ServableIsFound ==
    ASSUME IInv
    PROVE  LET found == GetSecret(cache, NoFilter, strictMatch)
               servable == \E c \in Visible(cache, NoFilter) :
                              Servable(cache[c], strictMatch)
           IN  /\ servable => found # {}
               /\ found # {} =>
                     \/ servable
                     \/ ~strictMatch /\ \A c \in found : ~ContainsName(cache[c])
<1> DEFINE found == GetSecret(cache, NoFilter, strictMatch)
           all == Visible(cache, NoFilter)
<1>1. found # {} <=>
         \E c \in all : EqualsName(cache[c]) \/ (~strictMatch /\ ContainsName(cache[c]))
  BY GetSecretFinds
<1>2. found \subseteq all
  BY DEF GetSecret, selectMatch
<1>3. strictMatch \in BOOLEAN
  BY DEF IInv, Keys
<1> HIDE DEF found, all
<1>4. (\E c \in all : Servable(cache[c], strictMatch)) => found # {}
  BY <1>1 DEF Servable
<1>5. CASE strictMatch
  BY <1>1, <1>4, <1>5 DEF Servable, found, all
<1>6. CASE ~strictMatch
  <2>1. \/ \E c \in all : ContainsName(cache[c])
        \/ \A c \in found : ~ContainsName(cache[c])
    BY <1>2
  <2> QED BY <1>4, <1>6, <2>1 DEF Servable, found, all
<1> QED BY <1>3, <1>5, <1>6

(* The log puts a miss down to the scope and the filters only if the       *)
(* lookup finds something without them; under strict matching always then, *)
(* otherwise except where what it finds does not contain the name: for any *)
(* finite vault, any names and any configuration of keys.                  *)
THEOREM BlameAlwaysJustified ==
    ASSUME IsFiniteSet(Ciphers)
    PROVE  Spec => BlameIsJustified
<1> DEFINE Justified(r) ==
        LET found == GetSecret(cache, NoFilter, strictMatch)
        IN  /\ Blamed(r) => found # {}
            /\ found # {} =>
                  \/ Blamed(r)
                  \/ ~strictMatch /\ \A c \in found : ~ContainsName(cache[c])
<1>1. ASSUME IInv, [Next]_vars, NEW r \in Requests, Misses(r)
      PROVE  Justified(r)
  <2>1. RequestTypes
    BY <1>1 DEF IInv
  <2>2. Get(r)
    <3> USE DEF Misses
    <3>1. ~(VaultChange \/ Rename \/ Sync \/ UNCHANGED vars)
      BY <1>1 DEF VaultChange, Rename, Sync, vars, requestVars
    <3>2. PICK s \in Requests :
             \/ Arrive(s) \/ ParseFilters(s) \/ ApplyScope(s)
             \/ Get(s) \/ List(s) \/ Respond(s)
      BY <1>1, <3>1 DEF Next
    <3>3. \E step : pc' = [pc EXCEPT ![s] = step]
      BY <3>2 DEF Arrive, ParseFilters, ApplyScope, Get, List, Found, Respond, Goto
    <3>4. s = r
      BY <1>1, <2>1, <3>3 DEF RequestTypes
    <3> QED BY <1>1, <3>2, <3>4 DEF Arrive, ParseFilters, ApplyScope, List, Respond
  <2> DEFINE winners == GetSecret(cache, filter[r], strictMatch)
             reason == Diagnosis(lookupFailure(cache, filter[r], strictMatch),
                                 strictMatch)
  <2>3. PICK found \in IF winners = {} THEN {{}} ELSE {{c} : c \in winners} :
           Found(r, found)
    BY <2>2 DEF Get
  <2> HIDE DEF winners, reason
  <2>4. answer'[r].ciphers = found /\ (found = {} => answer'[r].reason = reason)
    BY <1>1, <2>1, <2>3 DEF Found, reason, RequestTypes, Misses
  <2>5. winners = {} /\ answer'[r].reason = reason
    BY <1>1, <2>3, <2>4 DEF Misses
  <2>6. Blamed(r) <=>
           \E c \in Visible(cache, NoFilter) : Servable(cache[c], strictMatch)
    BY <1>1, <2>5, MissReason DEF winners, reason, Blamed
  <2> QED BY <1>1, <2>6, ServableIsFound
<1>2. IInv /\ [Next]_vars => [\A r \in Requests : Misses(r) => Justified(r)]_vars
  BY <1>1
<1> QED BY <1>2, Invariance, PTL DEF Spec, BlameIsJustified
=============================================================================
