------------------------------- MODULE RealIP -------------------------------
(***************************************************************************)
(* Resolver.Resolve of internal/realip: which address a request is taken   *)
(* to come from, given its socket peer, the parseable X-Forwarded-For      *)
(* entries and what can be read from the CDN's client-IP header.  The loop *)
(* over the entries is one action per round.                               *)
(*                                                                         *)
(* Addresses stand for themselves and a range for the addresses in it.     *)
(* There is one provider, as in presets.go; it is recognised always and    *)
(* trusted when TRUSTED_PROXY_PRESET names it.  How the entries and the    *)
(* header come out of a request is the subject of ProxyRoutes.             *)
(***************************************************************************)
EXTENDS Naturals, Sequences

CONSTANTS
    Addrs,          \* addresses
    EdgeRanges,     \* those in the provider's ranges
    Configs,        \* the proxies an operator may configure
    Chains,         \* the X-Forwarded-For chains of requests
    None            \* no address: an empty string, a header not usable

AddrOrNone == Addrs \cup {None}

Config == [proxies : SUBSET Addrs,  \* loopback and TRUSTED_PROXY_IP
           named : BOOLEAN]         \* TRUSTED_PROXY_PRESET names the provider

ASSUME AddrAssumption ==
    /\ EdgeRanges \subseteq Addrs /\ None \notin Addrs
    /\ Configs \subseteq Config /\ Chains \subseteq Seq(Addrs)

VARIABLES
    config,     \* the resolver's configuration, never written after New
    pc,         \* where Resolve is
    peer,       \* the socket peer
    chain,      \* the forwarded entries, in header order
    header,     \* the provider's client-IP header, None if not usable
    i,          \* the entry to look at next
    res         \* the Resolution: client, via the header, header missing

requestVars == <<peer, chain, header>>
vars == <<config, pc, requestVars, i, res>>

NoResolution == [client |-> None, via |-> FALSE, missing |-> FALSE]

(* New: a named provider's ranges are trusted as well. *)
Trusted == config.proxies \cup (IF config.named THEN EdgeRanges ELSE {})

IsTrustedProxy(ip) == ip \in Trusted

IsEdge(ip) == ip \in EdgeRanges

Init ==
    /\ config \in Configs
    /\ pc = "idle"
    /\ peer = None /\ chain = <<>> /\ header = None
    /\ i = 0
    /\ res = NoResolution

Receive(p, forwarded, value) ==
    /\ pc = "idle"
    /\ peer' = p
    /\ chain' = forwarded
    /\ header' = value
    /\ pc' = "peer"
    /\ UNCHANGED <<config, i, res>>

(* Mutant: a header that is missing is not noted. *)
ApplyEdgeSilently(ip) ==
    IF IsEdge(ip) /\ header # None
    THEN [res EXCEPT !.client = header, !.via = TRUE] ELSE res

applyEdge(ip) ==
    IF ~IsEdge(ip) THEN res
    ELSE IF header # None THEN [res EXCEPT !.client = header, !.via = TRUE]
    ELSE [res EXCEPT !.missing = TRUE]

(* The walk ends at ip: the header it published, or itself. *)
ResolveAt(ip) ==
    /\ LET r == applyEdge(ip)
       IN  res' = IF r.client = None THEN [r EXCEPT !.client = ip] ELSE r
    /\ pc' = "done"
    /\ UNCHANGED <<config, requestVars, i>>

PeerUntrusted ==
    /\ pc = "peer" /\ ~IsTrustedProxy(peer)
    /\ ResolveAt(peer)

PeerTrusted ==
    /\ pc = "peer" /\ IsTrustedProxy(peer)
    /\ pc' = "walk"
    /\ i' = Len(chain)
    /\ UNCHANGED <<config, requestVars, res>>

EntryUntrusted ==
    /\ pc = "walk" /\ i > 0 /\ ~IsTrustedProxy(chain[i])
    /\ ResolveAt(chain[i])

(* A trusted entry is passed, unless it is an edge whose header answers.   *)
(* Mutant: trusted entries are passed in any case.                         *)
EntryPassed ==
    /\ pc = "walk" /\ i > 0 /\ IsTrustedProxy(chain[i])
    /\ i' = i - 1
    /\ UNCHANGED <<config, pc, requestVars, res>>

EntryTrusted ==
    /\ pc = "walk" /\ i > 0 /\ IsTrustedProxy(chain[i])
    /\ res' = applyEdge(chain[i])
    /\ IF res'.client # None THEN pc' = "done" /\ UNCHANGED i
                             ELSE i' = i - 1 /\ UNCHANGED pc
    /\ UNCHANGED <<config, requestVars>>

ChainExhausted ==
    /\ pc = "walk" /\ i = 0
    /\ ResolveAt(peer)

(* Middleware stores the resolution and hands the request on. *)
Handled ==
    /\ pc = "done"
    /\ pc' = "idle"
    /\ peer' = None /\ chain' = <<>> /\ header' = None
    /\ i' = 0
    /\ res' = NoResolution
    /\ UNCHANGED config

Resolve ==
    \/ PeerUntrusted \/ PeerTrusted
    \/ EntryUntrusted \/ EntryTrusted \/ ChainExhausted

Next ==
    \/ \E p \in Addrs, forwarded \in Chains, value \in AddrOrNone :
          Receive(p, forwarded, value)
    \/ Resolve \/ Handled

Spec == Init /\ [][Next]_vars
-----------------------------------------------------------------------------
(***************************************************************************)
(* Properties.                                                             *)
(***************************************************************************)

(* Every variable holds a value of its kind; there is an answer exactly    *)
(* when the walk is over.                                                  *)
TypeOK ==
    /\ config \in Configs
    /\ pc \in {"idle", "peer", "walk", "done"}
    /\ chain \in Seq(Addrs) /\ header \in AddrOrNone
    /\ peer \in IF pc = "idle" THEN {None} ELSE Addrs
    /\ i \in 0..Len(chain)
    /\ res \in [client : AddrOrNone, via : BOOLEAN, missing : BOOLEAN]
    /\ res.client # None <=> pc = "done"

(* The addresses at which a walk ends: not trusted, or edges that tell.    *)
Stops(ip) == ~IsTrustedProxy(ip) \/ (IsEdge(ip) /\ header # None)

Answer(ip) == IF IsEdge(ip) /\ header # None THEN header ELSE ip

(* "The chain is walked right to left and the first entry that is not a    *)
(* trusted proxy is the client", edges handing over to their header, and   *)
(* "a chain of nothing but trusted proxies falls back to the peer"         *)
(* (realip.go:196-213).                                                    *)
ClientAsDefined ==
    pc = "done" =>
        \/ ~IsTrustedProxy(peer) /\ res.client = Answer(peer)
        \/ \E k \in 1..Len(chain) :
              /\ IsTrustedProxy(peer)
              /\ Stops(chain[k]) /\ res.client = Answer(chain[k])
              /\ \A j \in (k + 1)..Len(chain) : ~Stops(chain[j])
        \/ /\ IsTrustedProxy(peer)
           /\ \A j \in 1..Len(chain) : ~Stops(chain[j])
           /\ res.client = Answer(peer)

(* What a denial is diagnosed from: a CDN's own address is given out as    *)
(* the client only with the note that its header was not usable, and the   *)
(* note is never made when the header supplied the client.                 *)
CDNAnswersAreNoted ==
    pc = "done" =>
        /\ IsEdge(res.client) /\ ~res.via => res.missing
        /\ res.missing => header = None /\ ~res.via
=============================================================================
