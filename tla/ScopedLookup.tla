---------------------------- MODULE ScopedLookup ----------------------------
(***************************************************************************)
(* What one request computes: the placement filter of its query, the scope *)
(* of its API key, the lookup among the cached items and, when that finds  *)
(* nothing, the reason written to the log.  Everything here is a function  *)
(* of its arguments; SecretRequests says when they are read.               *)
(*                                                                         *)
(* Abstractions.  All requests ask for the same secret name, and an item   *)
(* is its placement and how its name compares with that one.  Names of     *)
(* organizations, collections and folders are compared trimmed and without *)
(* case, so a label stands for all its spellings; ids are numbers in the   *)
(* order of their strings.                                                 *)
(***************************************************************************)
EXTENDS VaultData, FiniteSets, FiniteSetsExt

CONSTANTS
    Orgs, Cols, Folders,    \* ids
    NoId,                   \* the empty string, of an id or a query parameter
    Labels,                 \* names of organizations, collections, folders
    Malformed               \* a query dimension no filter can be made of: not
                            \* a UUID, not a valid name, or id and name at once

Ids == Orgs \cup Cols \cup Folders
IdOrNone == Ids \cup {NoId}

(* How an item's name compares with the requested one: equal under         *)
(* EqualFold and, lower-cased, containing it; equal but not containing it  *)
(* (final sigma against capital sigma); containing it only; neither.       *)
NameKinds == {"equal", "folded", "containing", "other"}

Scope == [orgs : SUBSET (Orgs \cup Labels), cols : SUBSET (Cols \cup Labels)]

ASSUME IdAssumption ==
    /\ Ciphers \subseteq Nat /\ Ids \subseteq Nat /\ NoId \notin Ids
    /\ Labels \cap Ids = {} /\ NoId \notin Labels /\ Malformed \notin Labels
    /\ Malformed \notin IdOrNone
    /\ Values \subseteq NameKinds
    /\ Places \subseteq [org : Orgs \cup {NoId}, cols : SUBSET Cols,
                         folder : Folders \cup {NoId}]

EqualsName(item) == item.val \in {"equal", "folded"}
ContainsName(item) == item.val \in {"equal", "containing"}

(* One side of SyncNameMaps, from the names a vault version gives its ids. *)
NoNames == [orgs |-> <<>>, cols |-> <<>>, folders |-> <<>>]

(* Of several ids with one name the smallest wins. *)
LookupIDByName(idToName, target) ==
    LET matches == {i \in DOMAIN idToName : idToName[i] = target}
    IN  IF matches = {} THEN NoId ELSE Min(matches)

(***************************************************************************)
(* The client's filter and the key's scope.                                *)
(***************************************************************************)
NoFilter == [org |-> NoId, col |-> NoId, folder |-> NoId,
             orgs |-> {}, cols |-> {}]

(* A dimension of the query is empty, an id taken as it is, or a name.     *)
resolveDim(given, nameMap) ==
    IF given \in IdOrNone THEN given ELSE LookupIDByName(nameMap, given)

(* Mutant: a name nothing has is no constraint. *)
UnknownNameFits(query, names) ==
    Malformed \notin {query.org, query.col, query.folder}

FilterFits(query, names) ==
    \A dim \in {<<query.org, names.orgs>>, <<query.col, names.cols>>,
                <<query.folder, names.folders>>} :
        /\ dim[1] # Malformed
        /\ dim[1] = NoId \/ resolveDim(dim[1], dim[2]) # NoId

parseSecretFilters(query, names) ==
    [NoFilter EXCEPT !.org = resolveDim(query.org, names.orgs),
                     !.col = resolveDim(query.col, names.cols),
                     !.folder = resolveDim(query.folder, names.folders)]

resolveRef(ref, nameMap) ==
    IF ref \in Ids THEN ref ELSE LookupIDByName(nameMap, ref)

resolveScopeRefs(refs, nameMap) ==
    {resolveRef(ref, nameMap) : ref \in refs} \ {NoId}

(* A dimension the key constrains must resolve to something.  Mutant: one  *)
(* reference that does not resolve denies the whole key.                   *)
AllRefsResolve(scope, names) ==
    /\ NoId \notin {resolveRef(ref, names.orgs) : ref \in scope.orgs}
    /\ NoId \notin {resolveRef(ref, names.cols) : ref \in scope.cols}

ScopeResolves(scope, names) ==
    /\ scope.orgs # {} => resolveScopeRefs(scope.orgs, names.orgs) # {}
    /\ scope.cols # {} => resolveScopeRefs(scope.cols, names.cols) # {}

applyKeyScope(scope, names, filter) ==
    [filter EXCEPT !.orgs = resolveScopeRefs(scope.orgs, names.orgs),
                   !.cols = resolveScopeRefs(scope.cols, names.cols)]

(***************************************************************************)
(* The lookup.                                                             *)
(***************************************************************************)
(* Mutant: a filter on an organization stands in for the scope's. *)
FilterReplacesScope(item, f) ==
    /\ f.org # NoId => item.place.org = f.org
    /\ f.col # NoId => f.col \in item.place.cols
    /\ f.folder # NoId => item.place.folder = f.folder
    /\ f.org = NoId /\ f.orgs # {} => item.place.org \in f.orgs
    /\ f.cols # {} => item.place.cols \cap f.cols # {}

matchesSecretFilter(item, f) ==
    /\ f.org # NoId => item.place.org = f.org
    /\ f.col # NoId => f.col \in item.place.cols
    /\ f.folder # NoId => item.place.folder = f.folder
    /\ f.orgs # {} => item.place.org \in f.orgs
    /\ f.cols # {} => item.place.cols \cap f.cols # {}

Visible(items, f) ==
    {c \in Ciphers : items[c] # NoItem /\ matchesSecretFilter(items[c], f)}

(* Mutant: whatever the iteration over the map meets first. *)
AnyMatch(candidates) == candidates

selectMatch(candidates) == {c \in candidates : \A d \in candidates : c <= d}

(* The ciphers a lookup may return: one, or none at all. *)
GetSecret(items, f, strict) ==
    LET visible == Visible(items, f)
        exact == {c \in visible : EqualsName(items[c])}
        partial == {c \in visible : ContainsName(items[c])}
    IN  IF exact # {} THEN selectMatch(exact)
        ELSE IF strict THEN {} ELSE selectMatch(partial)

ListSecrets(items, f) == Visible(items, f)

(* lookupFailure's counts and the case Diagnosis makes of them.  A hidden   *)
(* item counts by the predicate of strict or by that of partial matching,  *)
(* while the lookup tries the strict one first either way.  Mutant: equal  *)
(* means equal in lower case.                                              *)
ServableIfLowered(item, strict) ==
    IF strict THEN item.val = "equal" ELSE ContainsName(item)

Servable(item, strict) ==
    IF strict THEN EqualsName(item) ELSE ContainsName(item)

lookupFailure(items, f, strict) ==
    LET cached == {c \in Ciphers : items[c] # NoItem}
        visible == Visible(items, f)
    IN  [cached |-> Cardinality(cached),
         visible |-> Cardinality(visible),
         hiddenNameMatches |-> Cardinality(
            {c \in cached \ visible : Servable(items[c], strict)}),
         partialInVisible |-> Cardinality(
            {c \in visible : ContainsName(items[c]) /\ ~EqualsName(items[c])})]

Diagnosis(e, strict) ==
    IF e.cached = 0 THEN "empty cache"
    ELSE IF e.hiddenNameMatches > 0 THEN "not yours"
    ELSE IF strict /\ e.partialInVisible > 0 THEN "partial only"
    ELSE IF e.visible = 0 THEN "nothing visible"
    ELSE "nowhere"
=============================================================================
