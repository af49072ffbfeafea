------------------------- MODULE IPWhitelistProofs -------------------------
(***************************************************************************)
(* Proofs about IPWhitelist, for every set of addresses, configurations,   *)
(* published lists and requests.                                           *)
(***************************************************************************)
EXTENDS IPWhitelist, SequenceTheorems, TLAPS

(***************************************************************************)
(* The inductive invariant.  The ranges are the list they were last loaded *)
(* from, nothing is ever loaded unless the operator asked for GitHub's     *)
(* ranges, and only a configured control gets as far as IsAllowed.         *)
(***************************************************************************)
RangesAreLoaded == ranges = InForce(loaded)

OffWithoutGitHub == ~control.github => updater = "off" /\ loaded = 0

JudgedIfConfigured == \A r \in Requests : pc[r] = "judge" => Configured

IInv ==
    /\ TypeOK
    /\ RangesAreLoaded
    /\ OffWithoutGitHub
    /\ JudgedIfConfigured
    /\ NoTransientDenial

USE ControlAssumption, AnswerAssumption, LimitAssumption

(* A new whitelist satisfies the inductive invariant.                      *)
LEMMA InitInv == Init => IInv
<1> SUFFICES ASSUME Init PROVE IInv
  OBVIOUS
<1> USE DEF Init
<1>1. PICK first \in Answers : history = <<first>>
  OBVIOUS
<1>2. history \in Seq(Answers) /\ Newest = 1
  BY <1>1 DEF Newest
<1>3. TypeOK
  <2>1. hits \in [Addrs -> 0..RateLimitMax] /\ from \in [Requests -> 0..loaded]
    OBVIOUS
  <2>2. updater \in {"off", "idle", "fetch", "load"} /\ updater # "load"
    OBVIOUS
  <2>3. Newest \in 1..MaxVersion /\ loaded \in 0..Newest
    BY <1>2
  <2> QED BY <1>2, <2>1, <2>2, <2>3 DEF TypeOK
<1>4. RangesAreLoaded /\ OffWithoutGitHub /\ JudgedIfConfigured
  BY DEF RangesAreLoaded, InForce, OffWithoutGitHub, JudgedIfConfigured
<1>5. NoTransientDenial
  BY DEF NoTransientDenial
<1> QED BY <1>3, <1>4, <1>5 DEF IInv

(* A list that is published does not disturb the numbers in use.           *)
LEMMA PublishMetaInv == IInv /\ PublishMeta => IInv'
<1> SUFFICES ASSUME IInv, PublishMeta PROVE IInv'
  OBVIOUS
<1> USE DEF IInv, PublishMeta, listVars, updateVars, requestVars
<1>1. PICK list \in Answers : history' = Append(history, list)
  OBVIOUS
<1>2. /\ history' \in Seq(Answers) /\ Newest' = Newest + 1
      /\ \A i \in 1..Newest : history'[i] = history[i]
  BY <1>1, AppendProperties DEF TypeOK, Newest
<1>3. \A i \in 0..loaded : InForce(i)' = InForce(i)
  <2> SUFFICES ASSUME NEW i \in 0..loaded PROVE InForce(i)' = InForce(i)
    OBVIOUS
  <2>1. i = 0 \/ i \in 1..Newest
    BY DEF TypeOK
  <2> QED BY <1>2, <2>1 DEF InForce
<1>4. TypeOK'
  <2>1. Newest' \in 1..MaxVersion /\ loaded' \in 0..Newest'
    BY <1>2 DEF TypeOK, Newest
  <2>2. snap \in 1..Newest => snap \in 1..Newest'
    BY <1>2 DEF TypeOK, Newest
  <2> QED BY <1>2, <2>1, <2>2 DEF TypeOK
<1>5. RangesAreLoaded'
  BY <1>3 DEF RangesAreLoaded, TypeOK
<1>6. OffWithoutGitHub' /\ JudgedIfConfigured'
  BY DEF OffWithoutGitHub, JudgedIfConfigured, Configured
<1>7. NoTransientDenial'
  <2> SUFFICES ASSUME NEW r \in Requests, pc[r] \in {"denied", "limited"}
               PROVE  /\ addr[r] \notin control.static
                      /\ \E i \in from[r]..loaded : addr[r] \notin InForce(i)'
    BY DEF NoTransientDenial
  <2>1. PICK i \in from[r]..loaded : addr[r] \notin InForce(i)
    BY DEF NoTransientDenial
  <2>2. i \in 0..loaded
    BY DEF TypeOK
  <2> QED BY <1>3, <2>1, <2>2 DEF NoTransientDenial
<1> QED BY <1>4, <1>5, <1>6, <1>7

(* Of the goroutine's steps only the load writes the ranges.               *)
LEMMA UpdaterInv ==
    IInv /\ (GitHubFlips \/ FetchAnswered \/ FetchFails \/ Tick
               \/ UpdaterStops \/ StopUpdate) => IInv'
<1> SUFFICES ASSUME IInv,
                    GitHubFlips \/ FetchAnswered \/ FetchFails \/ Tick
                      \/ UpdaterStops \/ StopUpdate
             PROVE  IInv'
  OBVIOUS
<1> USE DEF IInv, listVars, updateVars, requestVars, GitHubFlips,
            FetchAnswered, FetchFails, Tick, UpdaterStops, StopUpdate
<1>1. Newest \in 1..MaxVersion /\ loaded \in 0..Newest /\ Newest' = Newest
  BY DEF TypeOK, Newest
<1>2. TypeOK'
  <2>1. CASE FetchAnswered
    <3>1. Newest \in 1..Newest /\ loaded <= Newest /\ snap' = Newest
      BY <1>1, <2>1
    <3> QED BY <1>1, <2>1, <3>1 DEF TypeOK
  <2>2. CASE GitHubFlips \/ StopUpdate
    BY <1>1, <2>2 DEF TypeOK
  <2>3. CASE FetchFails \/ Tick \/ UpdaterStops
    BY <1>1, <2>3 DEF TypeOK
  <2> QED BY <2>1, <2>2, <2>3
<1>3. RangesAreLoaded' /\ OffWithoutGitHub' /\ JudgedIfConfigured'
  BY DEF RangesAreLoaded, InForce, OffWithoutGitHub, JudgedIfConfigured,
         Configured
<1>4. NoTransientDenial'
  BY DEF NoTransientDenial, InForce
<1> QED BY <1>2, <1>3, <1>4

(* A load moves on to a list that is not older.                            *)
LEMMA LoadRangesInv == IInv /\ LoadRanges => IInv'
<1> SUFFICES ASSUME IInv, LoadRanges PROVE IInv'
  OBVIOUS
<1> USE DEF IInv, LoadRanges, requestVars
<1>1. snap \in 1..Newest /\ loaded <= snap /\ loaded \in Nat
  BY DEF TypeOK, Newest
<1>2. history[snap] \in Answers
  BY <1>1, ElementOfSeq DEF TypeOK, Newest
<1>3. from' \in [Requests -> 0..loaded']
  BY <1>1 DEF TypeOK
<1>4. TypeOK'
  BY <1>1, <1>2, <1>3 DEF TypeOK, Newest
<1>5. RangesAreLoaded' /\ OffWithoutGitHub' /\ JudgedIfConfigured'
  BY <1>1 DEF RangesAreLoaded, InForce, OffWithoutGitHub, JudgedIfConfigured,
              Configured
<1>6. NoTransientDenial'
  <2> SUFFICES ASSUME NEW r \in Requests, pc[r] \in {"denied", "limited"}
               PROVE  /\ addr[r] \notin control.static
                      /\ \E i \in from[r]..snap : addr[r] \notin InForce(i)
    BY DEF NoTransientDenial, InForce
  <2>1. PICK i \in from[r]..loaded : addr[r] \notin InForce(i)
    BY DEF NoTransientDenial
  <2>2. from[r] \in Nat
    BY DEF TypeOK
  <2>3. i \in from[r]..snap
    BY <1>1, <2>1, <2>2
  <2> QED BY <2>1, <2>3 DEF NoTransientDenial
<1> QED BY <1>4, <1>5, <1>6

(* A request that ends in a denial was refused by the list in force.       *)
LEMMA DenialIsJustified ==
    ASSUME IInv, NEW r \in Requests, ~IsAllowed(addr[r])
    PROVE  /\ addr[r] \notin control.static
           /\ \E i \in from[r]..loaded : addr[r] \notin InForce(i)
<1>1. from[r] \in 0..loaded /\ loaded \in Nat
  BY DEF IInv, TypeOK
<1>2. loaded \in from[r]..loaded
  BY <1>1
<1> QED BY <1>2 DEF IInv, RangesAreLoaded, IsAllowed

(* A request's steps, and the end of a window.                             *)
LEMMA RequestInv ==
    ASSUME IInv, NEW r \in Requests,
           Arrive(r) \/ CheckConfigured(r) \/ Judge(r) \/ Limit(r) \/ Respond(r)
    PROVE  IInv'
<1> USE DEF IInv, listVars, updateVars, Goto
<1>1. UNCHANGED <<control, history, ranges, loaded, updater, snap>>
  BY DEF Arrive, CheckConfigured, Judge, Limit, Respond
<1>2. RangesAreLoaded' /\ OffWithoutGitHub'
  BY <1>1 DEF RangesAreLoaded, InForce, OffWithoutGitHub
<1>3. CASE Arrive(r)
  <2>1. PICK a \in Addrs : addr' = [addr EXCEPT ![r] = a]
    BY <1>3 DEF Arrive
  <2>2. from' \in [Requests -> 0..loaded']
    BY <1>3 DEF Arrive, TypeOK
  <2>3. TypeOK'
    BY <1>3, <2>1, <2>2 DEF Arrive, TypeOK, Newest
  <2>4. JudgedIfConfigured' /\ NoTransientDenial'
    BY <1>3 DEF Arrive, JudgedIfConfigured, NoTransientDenial, InForce,
                Configured, TypeOK
  <2> QED BY <1>2, <2>3, <2>4
<1>4. CASE CheckConfigured(r)
  <2> USE <1>4 DEF CheckConfigured
  <2>1. TypeOK'
    BY DEF TypeOK, Newest
  <2>2. JudgedIfConfigured'
    BY DEF JudgedIfConfigured, Configured, HasWhitelist, TypeOK,
           RangesAreLoaded, InForce, OffWithoutGitHub
  <2>3. pc'[r] = "denied" => ~IsAllowed(addr[r])
    BY DEF HasWhitelist, IsAllowed, TypeOK
  <2>4. NoTransientDenial'
    BY <2>3, DenialIsJustified DEF NoTransientDenial, InForce, TypeOK
  <2> QED BY <1>2, <2>1, <2>2, <2>4
<1>5. CASE Judge(r)
  <2> USE <1>5 DEF Judge
  <2>1. TypeOK'
    BY DEF TypeOK, Newest
  <2>2. JudgedIfConfigured'
    BY DEF JudgedIfConfigured, Configured, TypeOK
  <2>3. NoTransientDenial'
    BY DenialIsJustified DEF NoTransientDenial, InForce, TypeOK
  <2> QED BY <1>2, <2>1, <2>2, <2>3
<1>6. CASE Limit(r)
  <2> USE <1>6 DEF Limit
  <2>1. hits' \in [Addrs -> 0..RateLimitMax]
    <3>1. addr[r] \in Addrs
      BY DEF TypeOK
    <3>2. ~LimitReached(addr[r]) => hits[addr[r]] + 1 \in 0..RateLimitMax
      BY <3>1 DEF TypeOK, LimitReached
    <3> QED BY <3>1, <3>2 DEF TypeOK
  <2>2. TypeOK'
    BY <2>1 DEF TypeOK, Newest
  <2>3. JudgedIfConfigured'
    BY DEF JudgedIfConfigured, Configured, TypeOK
  <2>4. NoTransientDenial'
    BY DenialIsJustified DEF NoTransientDenial, InForce, TypeOK
  <2> QED BY <1>2, <2>2, <2>3, <2>4
<1>7. CASE Respond(r)
  <2> USE <1>7 DEF Respond
  <2>1. from' \in [Requests -> 0..loaded']
    BY DEF TypeOK
  <2>2. TypeOK'
    BY <2>1 DEF TypeOK, Newest
  <2>3. JudgedIfConfigured' /\ NoTransientDenial'
    BY DEF JudgedIfConfigured, NoTransientDenial, InForce, Configured, TypeOK
  <2> QED BY <1>2, <2>2, <2>3
<1> QED BY <1>3, <1>4, <1>5, <1>6, <1>7

(* A window ends and the counters of an address with it.                   *)
LEMMA WindowEndsInv == ASSUME IInv, NEW a \in Addrs, WindowEnds(a) PROVE IInv'
<1> USE DEF IInv, WindowEnds, listVars, updateVars
<1>1. TypeOK'
  BY DEF TypeOK, Newest
<1>2. RangesAreLoaded' /\ OffWithoutGitHub' /\ JudgedIfConfigured'
  BY DEF RangesAreLoaded, InForce, OffWithoutGitHub, JudgedIfConfigured,
         Configured
<1>3. NoTransientDenial'
  BY DEF NoTransientDenial, InForce
<1> QED BY <1>1, <1>2, <1>3

(* Nothing happens.                                                        *)
LEMMA StutterInv == IInv /\ UNCHANGED vars => IInv'
<1> USE DEF IInv, vars, listVars, updateVars, requestVars
<1> SUFFICES ASSUME IInv, UNCHANGED vars PROVE IInv'
  OBVIOUS
<1>1. TypeOK'
  BY DEF TypeOK, Newest
<1> QED BY <1>1 DEF RangesAreLoaded, InForce, OffWithoutGitHub, Configured,
                    JudgedIfConfigured, NoTransientDenial

(* Every reachable state satisfies the inductive invariant.                *)
THEOREM Invariant == Spec => []IInv
<1>1. IInv /\ [Next]_vars => IInv'
  BY PublishMetaInv, UpdaterInv, LoadRangesInv, RequestInv, WindowEndsInv,
     StutterInv DEF Next
<1> QED BY <1>1, InitInv, PTL DEF Spec

(* The whitelist keeps its types, and an answer it holds is never older    *)
(* than the ranges in force: the one goroutine fetches one at a time.      *)
THEOREM TypeCorrect == Spec => []TypeOK
<1>1. IInv => TypeOK
  BY DEF IInv
<1> QED BY <1>1, Invariant, PTL

(* A listed client is neither refused nor rate limited (the three reads of *)
(* Middleware and the limiter's Next, main.go:145).                        *)
THEOREM ListedAreServed == Spec => []NoTransientDenial
<1>1. IInv => NoTransientDenial
  BY DEF IInv
<1> QED BY <1>1, Invariant, PTL

-----------------------------------------------------------------------------
(***************************************************************************)
(* The refinement.  A request that finds no list at all is judged at its   *)
(* first read, any other at its second.                                    *)
(***************************************************************************)
Mapped == [r \in Requests |-> VerdictAt(pc[r])]

(* At first no request has a verdict, in either.                           *)
LEMMA InitRefines == Init => Gate!Init
<1> SUFFICES ASSUME Init PROVE Gate!Init
  OBVIOUS
<1>1. Mapped = [r \in Requests |-> "none"]
  BY DEF Init, Mapped, VerdictAt
<1> QED BY <1>1 DEF Init, Gate!Init, Mapped

(* A step of one request changes that request's verdict alone.             *)
LEMMA MappedStep ==
    ASSUME TypeOK, NEW r \in Requests, NEW step, Goto(r, step)
    PROVE  Mapped' = [Mapped EXCEPT ![r] = VerdictAt(step)]
<1>1. pc' = [pc EXCEPT ![r] = step] /\ pc \in [Requests -> {"idle", "check",
              "judge", "limit", "passed", "denied", "limited"}]
  BY DEF TypeOK, Goto
<1>2. \A s \in Requests : pc'[s] = IF s = r THEN step ELSE pc[s]
  BY <1>1
<1> QED BY <1>2 DEF Mapped

(* A step that leaves the verdict as it is.                                *)
LEMMA MappedStays ==
    ASSUME TypeOK, NEW r \in Requests, NEW step, Goto(r, step),
           VerdictAt(step) = VerdictAt(pc[r])
    PROVE  Mapped' = Mapped
BY MappedStep DEF Mapped

(* A step of a request is a step of the gate, or none.                     *)
LEMMA RequestRefines ==
    ASSUME IInv, NEW r \in Requests,
           Arrive(r) \/ CheckConfigured(r) \/ Judge(r) \/ Limit(r) \/ Respond(r)
    PROVE  [Gate!Next]_(Gate!vars)
<1> USE DEF listVars, updateVars, requestVars
<1>1. TypeOK
  BY DEF IInv
<1>2. CASE Arrive(r)
  <2>1. Mapped' = [Mapped EXCEPT ![r] = "pending"] /\ Mapped[r] = "none"
    BY <1>1, <1>2, MappedStep DEF Arrive, VerdictAt, Mapped
  <2>2. Gate!Ask(r)
    BY <1>2, <2>1 DEF Gate!Ask, Arrive, Mapped
  <2> QED BY <2>2 DEF Gate!Next
<1>3. CASE CheckConfigured(r) /\ HasWhitelist
  <2>1. Mapped' = Mapped
    BY <1>1, <1>3, MappedStays DEF CheckConfigured, VerdictAt
  <2> QED BY <1>3, <2>1 DEF CheckConfigured, Gate!vars, Mapped
<1>4. CASE CheckConfigured(r) /\ ~HasWhitelist
  <2>1. ~Gate!Listed(addr[r])
    BY <1>4 DEF HasWhitelist, Gate!Listed
  <2>2. Goto(r, IF Configured THEN "denied" ELSE "limit")
    BY <1>4 DEF CheckConfigured
  <2>3. /\ Mapped' = [Mapped EXCEPT ![r] =
                        IF Configured THEN "refused" ELSE "admitted"]
        /\ Mapped[r] = "pending"
    BY <1>1, <1>4, <2>2, MappedStep DEF VerdictAt, Mapped, CheckConfigured
  <2>4. Gate!Judge(r)
    BY <1>4, <2>1, <2>3
       DEF Gate!Judge, Gate!Configured, Configured, CheckConfigured, Mapped
  <2> QED BY <2>4 DEF Gate!Next
<1>5. CASE Judge(r)
  <2>1. Configured
    BY <1>5 DEF IInv, JudgedIfConfigured, Judge
  <2>2. Gate!Listed(addr[r]) <=> IsAllowed(addr[r])
    BY DEF Gate!Listed, IsAllowed
  <2>3. /\ Mapped' = [Mapped EXCEPT ![r] =
                        IF IsAllowed(addr[r]) THEN "admitted" ELSE "refused"]
        /\ Mapped[r] = "pending"
    BY <1>1, <1>5, MappedStep DEF Judge, VerdictAt, Mapped
  <2>4. Gate!Judge(r)
    BY <1>5, <2>1, <2>2, <2>3
       DEF Gate!Judge, Gate!Configured, Configured, Judge, Mapped
  <2> QED BY <2>4 DEF Gate!Next
<1>6. CASE Limit(r)
  <2>1. \E step \in {"passed", "limited"} : Goto(r, step)
    BY <1>6 DEF Limit
  <2>2. Mapped' = Mapped
    BY <1>1, <1>6, <2>1, MappedStays DEF Limit, VerdictAt
  <2> QED BY <1>6, <2>2 DEF Limit, Gate!vars, Mapped
<1>7. CASE Respond(r)
  <2>1. /\ Mapped' = [Mapped EXCEPT ![r] = "none"]
        /\ Mapped[r] \in {"admitted", "refused"}
    BY <1>1, <1>7, MappedStep DEF Respond, VerdictAt, Mapped
  <2>2. Gate!Forget(r)
    BY <1>7, <2>1 DEF Gate!Forget, Respond, Mapped
  <2> QED BY <2>2 DEF Gate!Next
<1> QED BY <1>2, <1>3, <1>4, <1>5, <1>6, <1>7

(* Every other step leaves the gate alone or changes its list.             *)
LEMMA StepRefines == IInv /\ [Next]_vars => [Gate!Next]_(Gate!vars)
<1> SUFFICES ASSUME IInv, [Next]_vars PROVE [Gate!Next]_(Gate!vars)
  OBVIOUS
<1> USE DEF listVars, updateVars, requestVars
<1>1. UNCHANGED pc => Mapped' = Mapped
  BY DEF Mapped
<1>2. CASE PublishMeta
  <2>1. Gate!Publish
    BY <1>1, <1>2 DEF PublishMeta, Newest, Gate!Publish, Mapped
  <2> QED BY <2>1 DEF Gate!Next
<1>3. CASE LoadRanges
  <2>1. snap \in DOMAIN history /\ loaded <= snap /\ control.github
    BY <1>3 DEF IInv, TypeOK, OffWithoutGitHub, LoadRanges, Newest
  <2>2. Gate!TakeOver(snap)
    BY <1>1, <1>3, <2>1 DEF LoadRanges, Gate!TakeOver, Mapped
  <2> QED BY <2>1, <2>2 DEF Gate!Next
<1>4. CASE \/ GitHubFlips \/ FetchAnswered \/ FetchFails \/ Tick
           \/ UpdaterStops \/ StopUpdate
           \/ \E a \in Addrs : WindowEnds(a)
           \/ UNCHANGED vars
  <2>1. UNCHANGED <<control, history, ranges, loaded, addr, pc>>
    BY <1>4 DEF vars, GitHubFlips, FetchAnswered, FetchFails, Tick,
                UpdaterStops, StopUpdate, WindowEnds
  <2> QED BY <1>1, <2>1 DEF Gate!vars, Mapped
<1> QED BY <1>2, <1>3, <1>4, RequestRefines DEF Next

(* The middleware judges as the abstract gate does, in one step and by one *)
(* list, for any number of requests and fetches (ipwhitelist.go:85-131).   *)
THEOREM Implementation == Spec => ImplementsGate
<1> USE DEF ImplementsGate, Gate!Spec
<1> QED BY InitRefines, StepRefines, Invariant, PTL DEF Spec
=============================================================================
