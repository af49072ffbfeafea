---------------------------- MODULE RealIPProofs ----------------------------
(***************************************************************************)
(* Proofs about RealIP, for any addresses, ranges and configurations and   *)
(* for chains of any length.                                               *)
(***************************************************************************)
EXTENDS RealIP, TLAPS

(***************************************************************************)
(* The inductive invariant: what the walk has passed, and what it has      *)
(* written down so far.                                                    *)
(***************************************************************************)
Passed ==
    pc = "walk" =>
        /\ IsTrustedProxy(peer)
        /\ \A j \in (i + 1)..Len(chain) : ~Stops(chain[j])

Noted ==
    /\ res.via => header # None
    /\ res.missing => header = None

Unanswered ==
    /\ pc # "done" => ~res.via
    /\ pc \in {"idle", "peer"} => res = NoResolution /\ i = 0

IInv == TypeOK /\ Passed /\ Noted /\ Unanswered
          /\ ClientAsDefined /\ CDNAnswersAreNoted

USE AddrAssumption DEF requestVars, AddrOrNone

(* The type of the resolution, and what an edge makes of it. *)
Resolution == [client : AddrOrNone, via : BOOLEAN, missing : BOOLEAN]

(* A recognised edge names the client if it sent its header.               *)
LEMMA ApplyEdge ==
    ASSUME NEW ip, res \in Resolution, header \in AddrOrNone
    PROVE  /\ applyEdge(ip) \in Resolution
           /\ IsEdge(ip) /\ header # None =>
                 /\ applyEdge(ip).client = header /\ applyEdge(ip).via
                 /\ applyEdge(ip).missing = res.missing
           /\ IsEdge(ip) /\ header = None =>
                 /\ applyEdge(ip).client = res.client
                 /\ applyEdge(ip).via = res.via /\ applyEdge(ip).missing
           /\ ~IsEdge(ip) => applyEdge(ip) = res
BY DEF applyEdge, Resolution

(* Ending the walk at an address answers with what that address says.      *)
LEMMA ResolvedAt ==
    ASSUME NEW ip \in Addrs, IInv, pc # "done", ResolveAt(ip)
    PROVE  /\ res' \in Resolution /\ res'.client # None
           /\ res'.client = Answer(ip)
           /\ Noted' /\ CDNAnswersAreNoted'
<1> DEFINE r == applyEdge(ip)
<1>1. /\ res \in Resolution /\ header \in AddrOrNone
      /\ res.client = None /\ ~res.via
  BY DEF IInv, TypeOK, Resolution, Unanswered
<1>2. res' = IF r.client = None THEN [r EXCEPT !.client = ip] ELSE r
  BY DEF ResolveAt
<1>3. r \in Resolution
  BY <1>1, ApplyEdge
<1>4. header' = header
  BY DEF ResolveAt
<1>5. CASE IsEdge(ip) /\ header # None
  <2>1. r.client = header /\ r.via /\ r.missing = res.missing
    BY <1>1, <1>5, ApplyEdge
  <2>2. res' = r
    BY <1>2, <1>5, <2>1
  <2>3. ~r.missing
    BY <1>5, <2>1 DEF IInv, Noted
  <2> QED
    BY <1>3, <1>4, <1>5, <2>1, <2>2, <2>3
    DEF Answer, Noted, CDNAnswersAreNoted
<1>6. CASE IsEdge(ip) /\ header = None
  <2>1. r.client = None /\ ~r.via /\ r.missing
    BY <1>1, <1>6, ApplyEdge
  <2>2. res' = [r EXCEPT !.client = ip]
    BY <1>2, <2>1
  <2>3. /\ res' \in Resolution /\ res'.client = ip
        /\ ~res'.via /\ res'.missing
    BY <1>3, <2>1, <2>2 DEF Resolution
  <2> QED
    BY <1>4, <1>6, <2>3 DEF Answer, Noted, CDNAnswersAreNoted
<1>7. CASE ~IsEdge(ip)
  <2>1. r = res
    BY <1>1, <1>7, ApplyEdge
  <2>2. /\ res' \in Resolution /\ res'.client = ip
        /\ ~res'.via /\ res'.missing = res.missing
    BY <1>1, <1>2, <2>1 DEF Resolution
  <2> QED
    BY <1>4, <1>7, <2>2
    DEF IInv, Noted, Answer, CDNAnswersAreNoted, IsEdge
<1> QED BY <1>5, <1>6, <1>7

(* A request that has not been received yet satisfies the invariant.       *)
LEMMA InitInv == Init => IInv
BY DEF Init, IInv, TypeOK, Passed, Noted, Unanswered, ClientAsDefined,
       CDNAnswersAreNoted, NoResolution

(* The three places at which a walk ends.                                  *)
LEMMA EndsInv ==
    ASSUME NEW ip \in Addrs, IInv, pc # "idle", pc # "done", ResolveAt(ip),
           \/ ~IsTrustedProxy(peer) /\ ip = peer
           \/ /\ IsTrustedProxy(peer) /\ i \in 1..Len(chain)
              /\ ip = chain[i] /\ Stops(ip)
              /\ \A j \in (i + 1)..Len(chain) : ~Stops(chain[j])
           \/ /\ IsTrustedProxy(peer) /\ ip = peer
              /\ \A j \in 1..Len(chain) : ~Stops(chain[j])
    PROVE  IInv'
<1>1. UNCHANGED <<config, peer, chain, header, i>> /\ pc' = "done"
  BY DEF ResolveAt
<1>2. /\ res' \in Resolution /\ res'.client # None
      /\ res'.client = Answer(ip)
      /\ Noted' /\ CDNAnswersAreNoted'
  BY ResolvedAt
<1>3. TypeOK'
  BY <1>1, <1>2 DEF IInv, TypeOK, Resolution
<1>4. Passed' /\ Unanswered'
  BY <1>1 DEF Passed, Unanswered
<1>5. ClientAsDefined'
  BY <1>1, <1>2 DEF ClientAsDefined, IsTrustedProxy, Trusted, Stops, Answer
<1> QED BY <1>2, <1>3, <1>4, <1>5 DEF IInv

(* A request is received, with whatever chain and header.                  *)
LEMMA ReceiveInv ==
    ASSUME IInv, NEW p \in Addrs, NEW forwarded \in Seq(Addrs),
           NEW value \in AddrOrNone, Receive(p, forwarded, value)
    PROVE  IInv'
<1>1. UNCHANGED <<config, i, res>> /\ res = NoResolution /\ i = 0
  BY DEF Receive, IInv, Unanswered, TypeOK
<1>2. TypeOK'
  BY <1>1 DEF Receive, IInv, TypeOK
<1>3. Passed' /\ Noted' /\ Unanswered'
  BY <1>1 DEF Receive, Passed, Noted, Unanswered, NoResolution
<1>4. ClientAsDefined' /\ CDNAnswersAreNoted'
  BY DEF Receive, ClientAsDefined, CDNAnswersAreNoted
<1> QED BY <1>2, <1>3, <1>4 DEF IInv

(* A round of the walk, or its end.                                        *)
LEMMA ResolveInv == ASSUME IInv, Resolve PROVE IInv'
<1>1. CASE PeerUntrusted
  <2>1. peer \in Addrs
    BY <1>1 DEF PeerUntrusted, IInv, TypeOK
  <2> QED BY <1>1, <2>1, EndsInv DEF PeerUntrusted
<1>2. CASE PeerTrusted
  <2>1. TypeOK'
    BY <1>2 DEF PeerTrusted, IInv, TypeOK
  <2>2. Passed'
    BY <1>2, <2>1 DEF PeerTrusted, Passed, IsTrustedProxy, Trusted, TypeOK
  <2>3. Noted' /\ Unanswered'
    BY <1>2 DEF PeerTrusted, IInv, Noted, Unanswered
  <2>4. ClientAsDefined' /\ CDNAnswersAreNoted'
    BY <1>2 DEF PeerTrusted, ClientAsDefined, CDNAnswersAreNoted
  <2> QED BY <2>1, <2>2, <2>3, <2>4 DEF IInv
<1>3. CASE EntryUntrusted
  <2>1. i \in 1..Len(chain) /\ chain[i] \in Addrs
    BY <1>3 DEF EntryUntrusted, IInv, TypeOK
  <2>2. /\ IsTrustedProxy(peer)
        /\ \A j \in (i + 1)..Len(chain) : ~Stops(chain[j])
    BY <1>3 DEF EntryUntrusted, IInv, Passed
  <2>3. Stops(chain[i])
    BY <1>3 DEF EntryUntrusted, Stops
  <2> QED BY <1>3, <2>1, <2>2, <2>3, EndsInv DEF EntryUntrusted
<1>4. CASE EntryTrusted
  <2>1. i \in 1..Len(chain) /\ chain[i] \in Addrs
    BY <1>4 DEF EntryTrusted, IInv, TypeOK
  <2>2. /\ res \in Resolution /\ header \in AddrOrNone
        /\ res.client = None /\ ~res.via
    BY <1>4 DEF EntryTrusted, IInv, TypeOK, Resolution, Unanswered
  <2>3. UNCHANGED <<config, peer, chain, header>> /\ pc = "walk"
    BY <1>4 DEF EntryTrusted
  <2>4. CASE IsEdge(chain[i]) /\ header # None
    <3>1. ResolveAt(chain[i])
      <4>1. res' = applyEdge(chain[i]) /\ res'.client # None
        BY <1>4, <2>2, <2>4, ApplyEdge DEF EntryTrusted
      <4> QED BY <1>4, <2>3, <4>1 DEF EntryTrusted, ResolveAt
    <3>2. Stops(chain[i])
      BY <2>4 DEF Stops
    <3>3. /\ IsTrustedProxy(peer)
          /\ \A j \in (i + 1)..Len(chain) : ~Stops(chain[j])
      BY <2>3 DEF IInv, Passed
    <3> QED BY <2>1, <2>3, <3>1, <3>2, <3>3, EndsInv
  <2>5. CASE ~(IsEdge(chain[i]) /\ header # None)
    <3>1. /\ res' \in Resolution /\ res'.client = None /\ ~res'.via
          /\ res'.missing => res.missing \/ header = None
      BY <1>4, <2>2, <2>5, ApplyEdge DEF EntryTrusted
    <3>2. i' = i - 1 /\ pc' = "walk"
      BY <1>4, <2>3, <3>1 DEF EntryTrusted
    <3>3. TypeOK'
      BY <2>1, <2>3, <3>1, <3>2 DEF IInv, TypeOK, Resolution
    <3>4. ~Stops(chain[i])
      BY <1>4, <2>5 DEF EntryTrusted, Stops
    <3>5. Passed'
      <4>1. \A j \in i..Len(chain) : ~Stops(chain[j])
        <5>1. \A j \in i..Len(chain) : j = i \/ j \in (i + 1)..Len(chain)
          BY <2>1 DEF IInv, TypeOK
        <5> QED BY <2>3, <3>4, <5>1 DEF IInv, Passed
      <4>2. i' + 1 = i
        BY <2>1, <3>2
      <4> QED
        BY <2>3, <4>1, <4>2
        DEF IInv, Passed, Stops, IsTrustedProxy, Trusted, IsEdge
    <3>6. Noted' /\ Unanswered'
      BY <2>3, <3>1, <3>2 DEF IInv, Noted, Unanswered
    <3>7. ClientAsDefined' /\ CDNAnswersAreNoted'
      BY <3>2 DEF ClientAsDefined, CDNAnswersAreNoted
    <3> QED BY <3>3, <3>5, <3>6, <3>7 DEF IInv
  <2> QED BY <2>4, <2>5
<1>5. CASE ChainExhausted
  <2>1. peer \in Addrs
    BY <1>5 DEF ChainExhausted, IInv, TypeOK
  <2>2. /\ IsTrustedProxy(peer)
        /\ \A j \in 1..Len(chain) : ~Stops(chain[j])
    BY <1>5 DEF ChainExhausted, IInv, Passed
  <2> QED BY <1>5, <2>1, <2>2, EndsInv DEF ChainExhausted
<1> QED BY <1>1, <1>2, <1>3, <1>4, <1>5 DEF Resolve

(* The request is handed on.                                               *)
LEMMA HandledInv == ASSUME IInv, Handled PROVE IInv'
BY DEF Handled, IInv, TypeOK, Passed, Noted, Unanswered, ClientAsDefined,
       CDNAnswersAreNoted, NoResolution

(* Nothing happens.                                                        *)
LEMMA StutterInv == ASSUME IInv, UNCHANGED vars PROVE IInv'
BY DEF vars, IInv, TypeOK, Passed, Noted, Unanswered, ClientAsDefined,
       CDNAnswersAreNoted, IsTrustedProxy, Trusted, Stops, Answer

(* Every step preserves the inductive invariant.                           *)
LEMMA StepInv == IInv /\ [Next]_vars => IInv'
<1> SUFFICES ASSUME IInv, [Next]_vars PROVE IInv'
  OBVIOUS
<1>1. CASE \E p \in Addrs, forwarded \in Chains, value \in AddrOrNone :
             Receive(p, forwarded, value)
  <2>1. PICK p \in Addrs, forwarded \in Chains, value \in AddrOrNone :
           Receive(p, forwarded, value)
    BY <1>1
  <2>2. forwarded \in Seq(Addrs)
    OBVIOUS
  <2> QED BY <2>1, <2>2, ReceiveInv
<1>2. CASE Resolve \/ Handled \/ UNCHANGED vars
  BY <1>2, ResolveInv, HandledInv, StutterInv
<1> QED BY <1>1, <1>2 DEF Next

(* Resolver.Resolve keeps to its inductive invariant.                      *)
LEMMA Invariance == Spec => []IInv
BY InitInv, StepInv, PTL DEF Spec

(* The client is the first untrusted address from the right, an edge's     *)
(* header or the peer, whatever the forwarded chain says.                  *)
THEOREM ClientIsDefined == Spec => []ClientAsDefined
<1>1. IInv => ClientAsDefined
  BY DEF IInv
<1> QED BY <1>1, Invariance, PTL

(* No CDN address is given out as the client without the note that its     *)
(* header was missing.                                                     *)
THEOREM CDNIsNoted == Spec => []CDNAnswersAreNoted
<1>1. IInv => CDNAnswersAreNoted
  BY DEF IInv
<1> QED BY <1>1, Invariance, PTL
=============================================================================
