--------------------------- MODULE SecretRequests ---------------------------
(***************************************************************************)
(* GET /secret/:name and GET /secrets while the vault is being synced.  A  *)
(* request takes Client.mu three times: for the name maps its query is     *)
(* resolved with, for those its key's scope is resolved with, and for the  *)
(* items; a sync may publish between any two.  What it reads is what       *)
(* SecretCache promises, which VaultSync implements.  The key a request    *)
(* presents is looked up first, in a store that is filled once at start.   *)
(***************************************************************************)
EXTENDS ScopedLookup, ApiKeys

CONSTANTS
    StartVaults, MaxVersion,
    NameSets,       \* the names a vault version may give its ids
    Requests,       \* handler goroutines
    Queries,        \* what they are asked for
    Environments    \* what the operator may have configured as API keys

(* What can be written in a list of keys. *)
KeyEntries == [key : Materials, scope : Scope]

ASSUME StartAssumption == StartVaults \subseteq Vault
ASSUME NameAssumption ==
    \A names \in NameSets :
        /\ DOMAIN names.orgs \subseteq Orgs
        /\ DOMAIN names.cols \subseteq Cols
        /\ DOMAIN names.folders \subseteq Folders
ASSUME EnvironmentAssumption ==
    \A e \in Environments :
        /\ e.file \in {NotSet, Unreadable} \/ e.file \in Seq(KeyEntries)
        /\ e.inline \in {NotSet, Unreadable} \/ e.inline \in Seq(KeyEntries)
        /\ e.legacy \in Materials \cup {NoKey}

VARIABLES
    history, cache, nameMaps, seen,     \* as in SecretCache
    labels,         \* the names of each version, parallel to history
    strictMatch,    \* STRICT_SECRET_MATCH
    env,            \* the environment the API keys were read from
    store,          \* auth.Store: the keys, never written after the start
    pc,             \* where each request is
    asked,          \* its route, query, key and that key's scope
    filter,         \* the SecretFilter being put together
    answer,         \* the ciphers it was given, and Diagnosis' reason if none
    read            \* ghost: the versions it has read, 0 = none yet

storeVars == <<history, cache, nameMaps, seen>>
requestVars == <<pc, asked, filter, answer, read>>
configVars == <<strictMatch, env, store>>
vars == <<storeVars, labels, configVars, requestVars>>

Store == INSTANCE SecretCache

Names(i) == IF i = 0 THEN NoNames ELSE labels[i]

Anything == [org |-> NoId, col |-> NoId, folder |-> NoId]
Unscoped == [orgs |-> {}, cols |-> {}]
Nothing == [route |-> "none", query |-> Anything, key |-> NoKey,
            scope |-> Unscoped]
NoAnswer == [ciphers |-> {}, reason |-> "none"]
Unread == [from |-> 0, filterNames |-> 0, scopeNames |-> 0, items |-> 0]

Init ==
    /\ Store!Init
    /\ \E names \in NameSets : labels = <<names>>
    /\ strictMatch \in BOOLEAN
    /\ env \in {e \in Environments : loadAPIKeys(e, Unscoped) # <<>>}
    /\ store = loadAPIKeys(env, Unscoped)
    /\ pc = [r \in Requests |-> "idle"]
    /\ asked = [r \in Requests |-> Nothing]
    /\ filter = [r \in Requests |-> NoFilter]
    /\ answer = [r \in Requests |-> NoAnswer]
    /\ read = [r \in Requests |-> Unread]

(***************************************************************************)
(* The vault and the sync.  A rename is a version of the vault, too.       *)
(***************************************************************************)
VaultChange ==
    /\ Store!VaultChange
    /\ labels' = Append(labels, labels[Len(labels)])
    /\ UNCHANGED <<configVars, requestVars>>

Rename ==
    /\ Len(history) < MaxVersion
    /\ \E names \in NameSets \ {labels[Len(labels)]} :
          labels' = Append(labels, names)
    /\ history' = Append(history, history[Len(history)])
    /\ UNCHANGED <<cache, nameMaps, seen, configVars, requestVars>>

Sync ==
    /\ \E i \in DOMAIN history : Store!Sync(i)
    /\ UNCHANGED <<labels, configVars, requestVars>>

(***************************************************************************)
(* A request.  The server listens once a first sync has succeeded.  The    *)
(* middleware answers a request whose key it does not know, and hands the  *)
(* scope of the others on.                                                 *)
(***************************************************************************)
Goto(r, step) == pc' = [pc EXCEPT ![r] = step]

Arrive(r) ==
    /\ pc[r] = "idle" /\ nameMaps > 0
    /\ \E route \in {"get", "list"}, q \in Queries, k \in Materials \cup {NoKey} :
          LET found == Matches(store, k)
          IN  /\ asked' = [asked EXCEPT ![r] =
                    [route |-> route, query |-> q, key |-> k,
                     scope |-> IF found = {} THEN Unscoped
                               ELSE store[Match(store, k)].scope]]
              /\ IF found = {}
                 THEN /\ answer' = [answer EXCEPT ![r].reason = "unauthorized"]
                      /\ Goto(r, "done")
                 ELSE UNCHANGED answer /\ Goto(r, "parse")
    /\ read' = [read EXCEPT ![r].from = seen]
    /\ UNCHANGED <<storeVars, labels, configVars, filter>>

(* parseSecretFilters; a query it refuses is answered like a miss. *)
ParseFilters(r) ==
    /\ pc[r] = "parse"
    /\ read' = [read EXCEPT ![r].filterNames = nameMaps]
    /\ IF FilterFits(asked[r].query, Names(nameMaps))
       THEN /\ filter' = [filter EXCEPT ![r] =
                            parseSecretFilters(asked[r].query, Names(nameMaps))]
            /\ Goto(r, "scope")
            /\ UNCHANGED answer
       ELSE /\ answer' = [answer EXCEPT ![r].reason = "bad filter"]
            /\ Goto(r, "done")
            /\ UNCHANGED filter
    /\ UNCHANGED <<storeVars, labels, configVars, asked>>

(* applyKeyScope. *)
ApplyScope(r) ==
    /\ pc[r] = "scope"
    /\ read' = [read EXCEPT ![r].scopeNames = nameMaps]
    /\ IF ScopeResolves(asked[r].scope, Names(nameMaps))
       THEN /\ filter' = [filter EXCEPT ![r] =
                applyKeyScope(asked[r].scope, Names(nameMaps), filter[r])]
            /\ Goto(r, "lookup")
            /\ UNCHANGED answer
       ELSE /\ answer' = [answer EXCEPT ![r].reason = "denied"]
            /\ Goto(r, "done")
            /\ UNCHANGED filter
    /\ UNCHANGED <<storeVars, labels, configVars, asked>>

Found(r, ciphers) ==
    /\ read' = [read EXCEPT ![r].items = seen]
    /\ answer' = [answer EXCEPT ![r] =
          [ciphers |-> ciphers,
           reason |-> IF ciphers # {} \/ asked[r].route = "list" THEN "found"
                      ELSE Diagnosis(lookupFailure(cache, filter[r], strictMatch),
                                     strictMatch)]]
    /\ Goto(r, "done")
    /\ UNCHANGED <<storeVars, labels, configVars, asked, filter>>

Get(r) ==
    /\ pc[r] = "lookup" /\ asked[r].route = "get"
    /\ LET winners == GetSecret(cache, filter[r], strictMatch)
       IN  \E found \in IF winners = {} THEN {{}} ELSE {{c} : c \in winners} :
              Found(r, found)

List(r) ==
    /\ pc[r] = "lookup" /\ asked[r].route = "list"
    /\ Found(r, ListSecrets(cache, filter[r]))

Respond(r) ==
    /\ pc[r] = "done"
    /\ asked' = [asked EXCEPT ![r] = Nothing]
    /\ filter' = [filter EXCEPT ![r] = NoFilter]
    /\ answer' = [answer EXCEPT ![r] = NoAnswer]
    /\ read' = [read EXCEPT ![r] = Unread]
    /\ Goto(r, "idle")
    /\ UNCHANGED <<storeVars, labels, configVars>>

Next ==
    \/ VaultChange \/ Rename \/ Sync
    \/ \E r \in Requests :
          \/ Arrive(r) \/ ParseFilters(r) \/ ApplyScope(r)
          \/ Get(r) \/ List(r) \/ Respond(r)

Spec == Init /\ [][Next]_vars
-----------------------------------------------------------------------------
(***************************************************************************)
(* Properties.                                                             *)
(***************************************************************************)

(* Whether an id is among those a set of ids and labels refers to, by the  *)
(* names of version v; nothing is, when the id has no name there.          *)
RefersTo(refs, names, id) ==
    id \in refs \/ (id \in DOMAIN names /\ names[id] \in refs)

(* An item of that placement may be shown under the scope, the names being *)
(* those of version v.                                                     *)
WithinScope(scope, v, place) ==
    /\ scope.orgs # {} => RefersTo(scope.orgs, Names(v).orgs, place.org)
    /\ scope.cols # {} =>
          \E c \in place.cols : RefersTo(scope.cols, Names(v).cols, c)

Placement(r, c) == history[read[r].items][c].place

(* Every variable holds a value of its kind; a request reads versions in   *)
(* the order in which it reads them.                                       *)
TypeOK ==
    /\ Len(labels) = Len(history)
    /\ strictMatch \in BOOLEAN
    /\ pc \in [Requests -> {"idle", "parse", "scope", "lookup", "done"}]
    /\ \A r \in Requests :
          /\ asked[r] \in [route : {"none", "get", "list"},
                           query : Queries \cup {Anything},
                           key : Materials \cup {NoKey}, scope : Scope]
          /\ filter[r] \in [org : IdOrNone, col : IdOrNone, folder : IdOrNone,
                            orgs : SUBSET Ids, cols : SUBSET Ids]
          /\ answer[r].ciphers \subseteq Ciphers
          /\ pc[r] = "lookup" => /\ read[r].filterNames \in 1..nameMaps
                                 /\ read[r].scopeNames \in
                                       read[r].filterNames..nameMaps

(* Whatever the query asks and whatever is published in the meantime, an   *)
(* item that is returned is in the key's scope: placed, in the version the *)
(* items were read from, in an organization and a collection that the      *)
(* scope referred to, by id or by name, when it was resolved.              *)
ServedWithinScope ==
    \A r \in Requests : \A c \in answer[r].ciphers :
        WithinScope(asked[r].scope, read[r].scopeNames, Placement(r, c))

(* An item of that placement is where the query asks for.                  *)
WithinQuery(query, v, place) ==
    /\ query.org # NoId => RefersTo({query.org}, Names(v).orgs, place.org)
    /\ query.col # NoId =>
          \E c \in place.cols : RefersTo({query.col}, Names(v).cols, c)
    /\ query.folder # NoId =>
          RefersTo({query.folder}, Names(v).folders, place.folder)

(* The same for the query: an item that is returned is where the query     *)
(* asked for, names being those the query was resolved with.               *)
ServedMatchesQuery ==
    \A r \in Requests : \A c \in answer[r].ciphers :
        WithinQuery(asked[r].query, read[r].filterNames, Placement(r, c))

(* Several items may match; which one is given does not depend on the      *)
(* order in which the item map is iterated, and it is one that the listing *)
(* shows for the same filter.                                              *)
AnswerIsDetermined ==
    \A r \in Requests :
        pc[r] = "lookup" =>
            LET winners == GetSecret(cache, filter[r], strictMatch)
            IN  /\ \A c, d \in winners : c = d
                /\ winners \subseteq ListSecrets(cache, filter[r])

(* A request that gets past the middleware is bounded by the scope that    *)
(* the operator wrote beside its key, in the list that counts (the file if *)
(* there is one) or as API_KEY, and by no other: "each key must be unique  *)
(* so it cannot silently override another key's scope" (config.go:207).    *)
ScopeIsTheKeys ==
    \A r \in Requests :
        pc[r] \in {"parse", "scope", "lookup"} \/ answer[r].ciphers # {} =>
            LET listed == IF Listed(env) = NotSet THEN {}
                          ELSE {Listed(env)[i] : i \in DOMAIN Listed(env)}
                given == {entry.scope : entry \in
                            {e \in listed : e.key = asked[r].key}}
            IN  /\ asked[r].key \in Long
                /\ given \cup (IF env.legacy = asked[r].key THEN {Unscoped} ELSE {})
                      = {asked[r].scope}

(* The query names nothing by its name, and an item fits it and the scope  *)
(* by ids alone.                                                           *)
AsksByIds(query) ==
    {query.org, query.col, query.folder} \subseteq IdOrNone

ServableByIds(entry, query, scope) ==
    /\ entry.state = "open" /\ EqualsName(entry)
    /\ query.org \in {NoId, entry.place.org}
    /\ query.col \in {NoId} \cup entry.place.cols
    /\ query.folder \in {NoId, entry.place.folder}
    /\ scope.orgs = {} \/ entry.place.org \in scope.orgs
    /\ scope.cols = {} \/ scope.cols \cap entry.place.cols # {}

(* No transient miss: an item that was readable, had the requested name    *)
(* and lay, by ids alone, inside the query and the scope in every version  *)
(* from the one served at arrival to the one read keeps the request from   *)
(* ending in a 404, whatever else was published and whichever other        *)
(* references of the key resolve to nothing.                               *)
NoTransientMiss ==
    \A r \in Requests : \A c \in Ciphers :
        (/\ pc[r] = "done" /\ asked[r].route = "get"
         /\ answer[r].reason # "unauthorized"
         /\ AsksByIds(asked[r].query)
         /\ \A i \in read[r].from..seen :
               ServableByIds(history[i][c], asked[r].query, asked[r].scope))
        => answer[r].ciphers # {}

(* A GET ends with no item and with the reason that goes to the log.       *)
Misses(r) ==
    /\ pc[r] = "lookup" /\ asked[r].route = "get"
    /\ pc'[r] = "done" /\ answer'[r].ciphers = {}

Blamed(r) == answer'[r].reason = "not yours"

(* The log blames the scope and the filters for a miss only if the lookup  *)
(* finds something without them; and if it does, the log says so, except   *)
(* where partial matching is on and what it finds equals the requested     *)
(* name by folding alone and does not contain it (client.go:333-336).      *)
BlameIsJustified ==
    [][\A r \in Requests : Misses(r) =>
          LET found == GetSecret(cache, NoFilter, strictMatch)
          IN  /\ Blamed(r) => found # {}
              /\ found # {} =>
                    \/ Blamed(r)
                    \/ ~strictMatch /\ \A c \in found : ~ContainsName(cache[c])]_vars

(* "no item by that name anywhere in the vault" (client.go:241): the log   *)
(* says so only if the lookup finds none without the scope and the filters *)
(* either.  A hidden item is to count if "it would have matched had the    *)
(* caller been able to see it, under whichever rule the lookup actually    *)
(* used" (client.go:329-330).                                              *)
AbsentMeansAbsent ==
    [][\A r \in Requests :
          Misses(r) /\ answer'[r].reason = "nowhere"
          => GetSecret(cache, NoFilter, strictMatch) = {}]_vars

(* "A scoped key can never read outside its scope" (handlers.go:299-300):  *)
(* an item that is returned was inside the scope, its placement and the    *)
(* names taken from one version, in some version while the request ran.    *)
RequestIsAtomic ==
    \A r \in Requests : \A c \in answer[r].ciphers :
        \E i \in read[r].from..read[r].items :
            WithinScope(asked[r].scope, i, history[i][c].place)
=============================================================================
