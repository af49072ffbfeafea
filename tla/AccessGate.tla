----------------------------- MODULE AccessGate -----------------------------
(***************************************************************************)
(* What the IP whitelist promises to the routes behind it: each request is *)
(* judged once, as if in one step, by the operator's list and by one list  *)
(* that GitHub published, lists being taken over in the order of their     *)
(* publication.  IPWhitelist, whose middleware reads the lists twice under *)
(* two locks, implements it.                                               *)
(***************************************************************************)
EXTENDS Naturals, Sequences

CONSTANTS
    Addrs,          \* addresses
    Requests,       \* handler goroutines
    Controls,       \* the access control an operator may configure
    Answers,        \* the lists GitHub may publish
    MaxVersion      \* bound: how many lists it publishes

VARIABLES
    control,    \* the configuration
    history,    \* the lists GitHub published, oldest first
    ranges,     \* the one in force
    loaded,     \* its number, 0 = none yet
    addr,       \* the client address of each request
    verdict     \* none, pending, admitted or refused

vars == <<control, history, ranges, loaded, addr, verdict>>

Configured == control.github \/ control.static # {}

Listed(a) == a \in control.static \cup ranges

Init ==
    /\ control \in Controls
    /\ \E first \in Answers : history = <<first>>
    /\ ranges = {} /\ loaded = 0
    /\ addr \in [Requests -> Addrs]
    /\ verdict = [r \in Requests |-> "none"]

Publish ==
    /\ Len(history) < MaxVersion
    /\ \E list \in Answers : history' = Append(history, list)
    /\ UNCHANGED <<control, ranges, loaded, addr, verdict>>

TakeOver(i) ==
    /\ control.github /\ loaded <= i
    /\ ranges' = history[i]
    /\ loaded' = i
    /\ UNCHANGED <<control, history, addr, verdict>>

Ask(r) ==
    /\ verdict[r] = "none"
    /\ \E a \in Addrs : addr' = [addr EXCEPT ![r] = a]
    /\ verdict' = [verdict EXCEPT ![r] = "pending"]
    /\ UNCHANGED <<control, history, ranges, loaded>>

(* No control configured: everyone is admitted.  Otherwise: who is listed. *)
Judge(r) ==
    /\ verdict[r] = "pending"
    /\ verdict' = [verdict EXCEPT ![r] =
                     IF Configured => Listed(addr[r]) THEN "admitted"
                                                      ELSE "refused"]
    /\ UNCHANGED <<control, history, ranges, loaded, addr>>

Forget(r) ==
    /\ verdict[r] \in {"admitted", "refused"}
    /\ verdict' = [verdict EXCEPT ![r] = "none"]
    /\ UNCHANGED <<control, history, ranges, loaded, addr>>

Next ==
    \/ Publish
    \/ \E i \in DOMAIN history : TakeOver(i)
    \/ \E r \in Requests : Ask(r) \/ Judge(r) \/ Forget(r)

Spec == Init /\ [][Next]_vars
=============================================================================
