------------------------------ MODULE ApiKeys ------------------------------
(***************************************************************************)
(* The API keys: how config.Load assembles them from the environment, and  *)
(* how the authentication middleware finds the one a request presents.     *)
(* Both are functions; SecretRequests says when they are used.             *)
(*                                                                         *)
(* A key's material is a member of Materials; a list is a sequence of      *)
(* entries [key, scope], in the order of the JSON array.                   *)
(***************************************************************************)
EXTENDS Naturals, Sequences

CONSTANTS
    Materials,      \* what may stand as a key, or be presented as one
    Long,           \* those of at least 32 characters
    NoKey,          \* the empty string; a request without a bearer token
    NotSet,         \* an environment variable that is empty
    Unreadable      \* no such file, no JSON, a field nobody knows, or no "key"

ASSUME KeyAssumption == Long \subseteq Materials /\ NoKey \notin Materials

(* The environment: API_KEYS_FILE and API_KEYS as lists, API_KEY. *)
Listed(env) == IF env.file # NotSet THEN env.file ELSE env.inline

(* The legacy key has no scope; unscoped is how that is written. *)
Appended(env, unscoped) ==
    IF env.legacy = NoKey THEN <<>>
    ELSE <<[key |-> env.legacy, scope |-> unscoped]>>

(* Mutant: one key may be listed twice. *)
LongEnough(keys) ==
    Len(keys) > 0 /\ \A i \in DOMAIN keys : keys[i].key \in Long

Acceptable(keys) ==
    /\ Len(keys) > 0
    /\ \A i \in DOMAIN keys : keys[i].key \in Long
    /\ \A i, j \in DOMAIN keys : keys[i].key = keys[j].key => i = j

(* The keys of the store; none if the start fails. *)
loadAPIKeys(env, unscoped) ==
    IF Listed(env) = Unreadable THEN <<>>
    ELSE LET listed == IF Listed(env) = NotSet THEN <<>> ELSE Listed(env)
             keys == listed \o Appended(env, unscoped)
         IN  IF Acceptable(keys) THEN keys ELSE <<>>

(* Match looks at every entry, so that the last one with the key wins. *)
Matches(store, provided) == {i \in DOMAIN store : store[i].key = provided}

Match(store, provided) ==
    CHOOSE i \in Matches(store, provided) :
        \A j \in Matches(store, provided) : j <= i
=============================================================================
