---------------------------- MODULE SecretCache ----------------------------
(***************************************************************************)
(* What the client promises to whoever reads secrets: the cache and the    *)
(* name maps each come from one answer of the server, a sync brings the    *)
(* cache up to date with an answer at least as recent as the one it        *)
(* reflects, and it does so in one step.  VaultSync implements it.         *)
(***************************************************************************)
EXTENDS VaultData

CONSTANTS
    StartVaults,    \* the vaults the service may find when it starts
    MaxVersion      \* bound: how many versions the vault goes through

VARIABLES
    history,    \* the versions of the vault, oldest first
    cache,      \* Client.items
    nameMaps,   \* Client.nameMaps: the version whose names it holds, 0 = none
    seen        \* the version the cache was last reconciled with, 0 = none

vars == <<history, cache, nameMaps, seen>>

Init ==
    /\ \E v \in StartVaults : history = <<v>>
    /\ cache = EmptyCache
    /\ nameMaps = 0
    /\ seen = 0

VaultChange ==
    /\ Len(history) < MaxVersion
    /\ \E v \in NextVaults(history) : history' = Append(history, v)
    /\ UNCHANGED <<cache, nameMaps, seen>>

(* Names are replaced together with the items, except by an answer nothing *)
(* of which decrypts: that one only reconciles the items.                  *)
Sync(i) ==
    /\ seen <= i
    /\ cache' = Reconcile(cache, history[i])
    /\ nameMaps' = IF NothingDecrypts(history[i]) THEN nameMaps ELSE i
    /\ seen' = i
    /\ UNCHANGED history

Next == VaultChange \/ \E i \in DOMAIN history : Sync(i)

Spec == Init /\ [][Next]_vars
=============================================================================
