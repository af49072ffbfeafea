---------------------------- MODULE IPWhitelist ----------------------------
(***************************************************************************)
(* internal/ipwhitelist: the operator's addresses, GitHub's ranges and the *)
(* goroutine that fetches them, and the requests judged meanwhile, up to   *)
(* and including the rate limiter behind the whitelist (cmd/api/main.go),  *)
(* which reads the lists a third time.                                     *)
(*                                                                         *)
(* A list is the set of the addresses it covers; an address no client has  *)
(* stands for a list that covers none of them.  Entries that do not parse  *)
(* cover nothing.  The address of a request is what realip resolved.       *)
(***************************************************************************)
EXTENDS Naturals, Sequences

CONSTANTS
    Addrs, Requests, Controls, Answers, MaxVersion,     \* as in AccessGate
    RateLimitMax    \* RATE_LIMIT_MAX

Control == [given : BOOLEAN,            \* ALLOWED_IPS is not empty
            static : SUBSET Addrs,      \* what its entries cover
            github : BOOLEAN]           \* ENABLE_GITHUB_IP_RANGES

ASSUME ControlAssumption ==
    /\ Controls \subseteq Control
    /\ \A c \in Controls : c.static # {} => c.given
ASSUME AnswerAssumption == Answers \subseteq SUBSET Addrs
ASSUME LimitAssumption == MaxVersion \in Nat \ {0} /\ RateLimitMax \in Nat \ {0}

VARIABLES
    control,    \* the configuration, never written after New
    history,    \* the lists published at api.github.com/meta, oldest first
    reachable,  \* it answers 200 with a body that decodes
    ranges,     \* githubIPRanges
    loaded,     \* ghost: the list ranges was taken from, 0 = none yet
    serving,    \* New has returned
    updater,    \* where the goroutine that fetches is (New is its first part)
    snap,       \* the list in the answer it holds, 0 = none
    done,       \* StartPeriodicUpdate's channel is closed
    pc,         \* where each request is
    addr,       \* its client address
    from,       \* ghost: the list in force when it arrived
    hits        \* the limiter's hits in this window, up to RateLimitMax

listVars == <<ranges, loaded>>
updateVars == <<serving, updater, snap, done>>
requestVars == <<pc, addr, from, hits>>
vars == <<control, history, reachable, listVars, updateVars, requestVars>>

Newest == Len(history)

Init ==
    /\ control \in Controls
    /\ \E first \in Answers : history = <<first>>
    /\ reachable \in BOOLEAN
    /\ ranges = {} /\ loaded = 0
    /\ serving = ~control.github
    /\ updater = IF control.github THEN "fetch" ELSE "off"
    /\ snap = 0
    /\ done = FALSE
    /\ pc = [r \in Requests |-> "idle"]
    /\ addr \in [Requests -> Addrs]
    /\ from = [r \in Requests |-> 0]
    /\ hits = [a \in Addrs |-> 0]

PublishMeta ==
    /\ Newest < MaxVersion
    /\ \E list \in Answers : history' = Append(history, list)
    /\ UNCHANGED <<control, reachable, listVars, updateVars, requestVars>>

GitHubFlips ==
    /\ reachable' = ~reachable
    /\ UNCHANGED <<control, history, listVars, updateVars, requestVars>>

(***************************************************************************)
(* updateGitHubIPRanges: the request ends with an answer or with an error, *)
(* and only an answer that decoded takes the write lock.  New calls it     *)
(* once before anything is served and drops its error; afterwards the      *)
(* goroutine of StartPeriodicUpdate calls it at each tick.                 *)
(***************************************************************************)
FetchAnswered ==
    /\ updater = "fetch" /\ reachable
    /\ snap' = Newest
    /\ updater' = "load"
    /\ UNCHANGED <<control, history, reachable, listVars, serving, done,
                   requestVars>>

(* Mutants: the ranges are emptied before the fetch instead of under the   *)
(* lock; an error ends the goroutine.                                      *)
FetchFailsEmptying ==
    /\ updater = "fetch" /\ ~reachable
    /\ ranges' = {}
    /\ updater' = "idle"
    /\ serving' = TRUE
    /\ UNCHANGED <<control, history, reachable, loaded, snap, done, requestVars>>

FetchFailsForGood ==
    /\ updater = "fetch" /\ ~reachable
    /\ updater' = "off"
    /\ serving' = TRUE
    /\ UNCHANGED <<control, history, reachable, listVars, snap, done,
                   requestVars>>

FetchFails ==
    /\ updater = "fetch" /\ ~reachable
    /\ updater' = "idle"
    /\ serving' = TRUE
    /\ UNCHANGED <<control, history, reachable, listVars, snap, done,
                   requestVars>>

LoadRanges ==
    /\ updater = "load"
    /\ ranges' = history[snap]
    /\ loaded' = snap
    /\ snap' = 0
    /\ updater' = "idle"
    /\ serving' = TRUE
    /\ UNCHANGED <<control, history, reachable, done, requestVars>>

Tick ==
    /\ updater = "idle"
    /\ updater' = "fetch"
    /\ UNCHANGED <<control, history, reachable, listVars, serving, snap, done,
                   requestVars>>

(* Mutant: done is looked at only until the first list is loaded. *)
UpdaterStopsUnloaded ==
    /\ updater = "idle" /\ done /\ loaded = 0
    /\ updater' = "off"
    /\ UNCHANGED <<control, history, reachable, listVars, serving, snap, done,
                   requestVars>>

UpdaterStops ==
    /\ updater = "idle" /\ done
    /\ updater' = "off"
    /\ UNCHANGED <<control, history, reachable, listVars, serving, snap, done,
                   requestVars>>

(* The stop function; a second call of it is the subject of Service. *)
StopUpdate ==
    /\ serving /\ control.github /\ ~done
    /\ done' = TRUE
    /\ UNCHANGED <<control, history, reachable, listVars, serving, updater,
                   snap, requestVars>>

(***************************************************************************)
(* A request: Middleware reads whether anything is listed, IsAllowed the   *)
(* lists themselves, and the limiter's Next calls IsAllowed once more.     *)
(***************************************************************************)
Configured == control.github \/ control.static # {}

HasWhitelist == control.static # {} \/ ranges # {}

IsAllowed(a) == a \in control.static \/ a \in ranges

Goto(r, step) == pc' = [pc EXCEPT ![r] = step]

Arrive(r) ==
    /\ serving /\ pc[r] = "idle"
    /\ \E a \in Addrs : addr' = [addr EXCEPT ![r] = a]
    /\ from' = [from EXCEPT ![r] = loaded]
    /\ Goto(r, "check")
    /\ UNCHANGED <<control, history, reachable, listVars, updateVars, hits>>

(* Mutant: a whitelist that holds nothing is no whitelist. *)
EmptyMeansOpen(r) ==
    /\ pc[r] = "check"
    /\ Goto(r, IF HasWhitelist THEN "judge" ELSE "limit")
    /\ UNCHANGED <<control, history, reachable, listVars, updateVars, addr,
                   from, hits>>

CheckConfigured(r) ==
    /\ pc[r] = "check"
    /\ Goto(r, IF HasWhitelist THEN "judge"
               ELSE IF Configured THEN "denied" ELSE "limit")
    /\ UNCHANGED <<control, history, reachable, listVars, updateVars, addr,
                   from, hits>>

Judge(r) ==
    /\ pc[r] = "judge"
    /\ Goto(r, IF IsAllowed(addr[r]) THEN "limit" ELSE "denied")
    /\ UNCHANGED <<control, history, reachable, listVars, updateVars, addr,
                   from, hits>>

LimitReached(a) == hits[a] = RateLimitMax

Limit(r) ==
    /\ pc[r] = "limit"
    /\ IF IsAllowed(addr[r])
       THEN Goto(r, "passed") /\ UNCHANGED hits
       ELSE IF LimitReached(addr[r])
       THEN Goto(r, "limited") /\ UNCHANGED hits
       ELSE /\ Goto(r, "passed")
            /\ hits' = [hits EXCEPT ![addr[r]] = @ + 1]
    /\ UNCHANGED <<control, history, reachable, listVars, updateVars, addr,
                   from>>

WindowEnds(a) ==
    /\ hits[a] > 0
    /\ hits' = [hits EXCEPT ![a] = 0]
    /\ UNCHANGED <<control, history, reachable, listVars, updateVars, pc, addr,
                   from>>

Respond(r) ==
    /\ pc[r] \in {"passed", "denied", "limited"}
    /\ from' = [from EXCEPT ![r] = 0]
    /\ Goto(r, "idle")
    /\ UNCHANGED <<control, history, reachable, listVars, updateVars, addr,
                   hits>>

Next ==
    \/ PublishMeta \/ GitHubFlips
    \/ FetchAnswered \/ FetchFails \/ LoadRanges
    \/ Tick \/ UpdaterStops \/ StopUpdate
    \/ \E a \in Addrs : WindowEnds(a)
    \/ \E r \in Requests :
          Arrive(r) \/ CheckConfigured(r) \/ Judge(r) \/ Limit(r) \/ Respond(r)

Spec == Init /\ [][Next]_vars

(***************************************************************************)
(* Fairness.  The goroutine is scheduled, a fetch ends (the client has a   *)
(* 10 s timeout) and the ticker ticks.  A select with both channels ready  *)
(* picks one at random, so that a closed channel is chosen some time.      *)
(***************************************************************************)
Fairness ==
    /\ WF_vars(FetchAnswered \/ FetchFails) /\ WF_vars(LoadRanges)
    /\ WF_vars(Tick) /\ SF_vars(UpdaterStops)

FairSpec == Spec /\ Fairness
-----------------------------------------------------------------------------
(***************************************************************************)
(* Properties.                                                             *)
(***************************************************************************)

(* The list numbered i; before the first one is loaded there is none. *)
InForce(i) == IF i = 0 THEN {} ELSE history[i]

(* Every variable holds a value of its kind; an answer is held only on the *)
(* way to the lock and is not older than the ranges it replaces.           *)
TypeOK ==
    /\ control \in Controls
    /\ history \in Seq(Answers) /\ Newest \in 1..MaxVersion
    /\ reachable \in BOOLEAN /\ serving \in BOOLEAN /\ done \in BOOLEAN
    /\ ranges \in SUBSET Addrs
    /\ loaded \in 0..Newest
    /\ updater \in {"off", "idle", "fetch", "load"}
    /\ IF updater = "load" THEN snap \in 1..Newest /\ loaded <= snap
                           ELSE snap = 0
    /\ pc \in [Requests -> {"idle", "check", "judge", "limit", "passed",
                            "denied", "limited"}]
    /\ addr \in [Requests -> Addrs]
    /\ from \in [Requests -> 0..loaded]
    /\ hits \in [Addrs -> 0..RateLimitMax]

(* No transient denial: a client that the operator lists, or that every    *)
(* list in force from its arrival to now contains, is neither refused nor  *)
(* rate limited, however fetches fail or replace the ranges meanwhile.     *)
NoTransientDenial ==
    \A r \in Requests :
        pc[r] \in {"denied", "limited"} =>
            /\ addr[r] \notin control.static
            /\ \E i \in from[r]..loaded : addr[r] \notin InForce(i)

(* Reading the lists in two steps cannot be told from judging at once.     *)
VerdictAt(step) ==
    CASE step = "idle" -> "none"
      [] step \in {"check", "judge"} -> "pending"
      [] step \in {"limit", "passed", "limited"} -> "admitted"
      [] step = "denied" -> "refused"

Gate == INSTANCE AccessGate
            WITH verdict <- [r \in Requests |-> VerdictAt(pc[r])]

(* The middleware, with its two locks and the fetches in between, judges   *)
(* as the abstract gate does: by one list, in one step, and never by none. *)
ImplementsGate == Gate!Spec

(* Once GitHub answers for good, the ranges in force become the list it    *)
(* publishes, unless the updates are stopped: a fetch that failed, also    *)
(* the very first, is made up for at a later tick.                         *)
RangesConverge ==
    <>[](reachable /\ ~done /\ control.github) => <>[](loaded = Newest)

(* Calling the stop function ends the goroutine (ipwhitelist.go:202).      *)
UpdaterEnds == done ~> updater = "off"

(* "Whitelisting fails closed: once ALLOWED_IPS or ENABLE_GITHUB_IP_RANGES *)
(* is set, a whitelist that ends up empty denies every request" (README).  *)
FailsClosed ==
    \A r \in Requests :
        (control.given \/ control.github) /\ pc[r] = "passed" =>
            \/ addr[r] \in control.static
            \/ \E i \in from[r]..loaded : addr[r] \in InForce(i)
=============================================================================
