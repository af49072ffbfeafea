----------------------------- MODULE VaultData -----------------------------
(***************************************************************************)
(* The data the sync cycle moves: what the Vaultwarden server answers to   *)
(* GET /api/sync for each cipher, what the client caches of it, and how    *)
(* one is turned into the other.  Shared by the abstract cache             *)
(* (SecretCache) and by the sync cycle that implements it (VaultSync).     *)
(*                                                                         *)
(* Abstractions.  A cipher's decrypted content (name, password, notes,     *)
(* fields) is one member of Values: nothing in the sync looks inside it.   *)
(* Its placement (organization, collections, folder), which the payload    *)
(* carries in plaintext, is one member of Places.  Whether a cipher        *)
(* decrypts depends on keys the account does or does not hold: "open" is a *)
(* cipher that decrypts, "sealed" one that does not.                       *)
(***************************************************************************)
EXTENDS Naturals, Sequences

CONSTANTS
    Ciphers,    \* the cipher ids of the vault (never empty strings)
    Values,     \* what a cipher can contain
    Places,     \* where a cipher can be placed
    NoItem      \* no entry for the cipher in Client.items

Item == [val : Values, place : Places]

ASSUME NoItemAssumption == NoItem \notin Item

(* What the server holds for one cipher id. *)
CipherState == {"absent", "trashed", "sealed", "open"}
Entry == [state : CipherState, val : Values, place : Places]
Vault == [Ciphers -> Entry]

Cache == [Ciphers -> Item \cup {NoItem}]
EmptyCache == [c \in Ciphers |-> NoItem]

ItemOf(entry) == [val |-> entry.val, place |-> entry.place]

(* The ciphers a sync decrypts, and those it reports as failures.  Trashed *)
(* ciphers stay in the payload and are neither.                            *)
Decrypted(vault) == {c \in Ciphers : vault[c].state = "open"}
FailedCiphers(vault) == {c \in Ciphers : vault[c].state = "sealed"}
Live(vault) == Decrypted(vault) \cup FailedCiphers(vault)

(* Nothing decrypted while something failed: APIClient.Sync raises an      *)
(* error and hands the failure list over with it.                          *)
NothingDecrypts(vault) == Decrypted(vault) = {} /\ FailedCiphers(vault) # {}

(***************************************************************************)
(* What a cache becomes when it is brought up to date with a vault: a      *)
(* readable cipher is cached as it is, an unreadable one keeps its last    *)
(* cached content under its current placement, anything else is dropped.   *)
(***************************************************************************)
Reconcile(old, vault) ==
    [c \in Ciphers |->
        IF c \in Decrypted(vault) THEN ItemOf(vault[c])
        ELSE IF c \in FailedCiphers(vault) /\ old[c] # NoItem
             THEN [val |-> old[c].val, place |-> vault[c].place]
             ELSE NoItem]

(***************************************************************************)
(* How the account's vault changes between two requests: the server, its   *)
(* other clients and its administrators, none of them in this repository.  *)
(* A cipher id is a UUID, so it is created once.                           *)
(***************************************************************************)
ChangedEntries(entry, unused) ==
    IF entry.state = "absent"
    THEN IF unused THEN {[entry EXCEPT !.state = "open"]} ELSE {}
    ELSE {[entry EXCEPT !.state = s] : s \in CipherState \ {entry.state}}
         \cup {[entry EXCEPT !.val = v] : v \in Values \ {entry.val}}
         \cup {[entry EXCEPT !.place = p] : p \in Places \ {entry.place}}

NextVaults(history) ==
    LET vault == history[Len(history)]
    IN  UNION {{[vault EXCEPT ![c] = e] :
                  e \in ChangedEntries(vault[c],
                          \A i \in DOMAIN history : history[i][c].state = "absent")}
               : c \in Ciphers}
=============================================================================
