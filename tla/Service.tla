------------------------------ MODULE Service ------------------------------
(***************************************************************************)
(* cmd/api/main.go from config.Load to the end of the process: the stages  *)
(* of the start, the goroutine that waits for a signal, app.Listen, and    *)
(* the connections being served meanwhile.                                 *)
(*                                                                         *)
(* The HTTP server is fiber on fasthttp.  As main uses it, Listen binds    *)
(* the port, registers the listener and accepts until the listener fails   *)
(* or is closed; Shutdown does nothing when no listener is registered, and *)
(* otherwise closes it, at which Listen returns nil, and waits for the     *)
(* open connections.  What Stop and the stop function set off is the       *)
(* subject of VaultSync and IPWhitelist.                                   *)
(***************************************************************************)
EXTENDS Naturals

CONSTANTS
    Connections,    \* connections of clients
    MaxSignals      \* bound: SIGTERM and SIGINT sent to the process

ASSUME SignalAssumption == MaxSignals \in Nat

VARIABLES
    github,     \* ENABLE_GITHUB_IP_RANGES
    main,       \* where the main goroutine is
    signaler,   \* where the goroutine of the graceful shutdown is
    process,    \* running, or how the process ended
    sent,       \* signals sent so far
    sigChan,    \* a signal is in the channel, whose buffer holds one
    vault,      \* the vault client: none, running, stopped
    done,       \* StartPeriodicUpdate's channel: none, open, closed
    listener,   \* the server's listener: none, open, closed
    conns       \* connections: none, open, answered, aborted

startVars == <<github, vault, done>>
vars == <<startVars, main, signaler, process, sent, sigChan, listener, conns>>

Init ==
    /\ github \in BOOLEAN
    /\ main = "config"
    /\ signaler = "off"
    /\ process = "running"
    /\ sent = 0
    /\ sigChan = FALSE
    /\ vault = "none" /\ done = "none" /\ listener = "none"
    /\ conns = [c \in Connections |-> "none"]

Running == process = "running"

(* The process ends, and every open connection with it. *)
End(how) ==
    /\ process' = how
    /\ conns' = [c \in Connections |->
                    IF conns[c] = "open" THEN "aborted" ELSE conns[c]]

(***************************************************************************)
(* The start: each stage succeeds or ends the process by Fatalf, except    *)
(* that ipwhitelist.New never fails.                                       *)
(***************************************************************************)
Stages == {"config", "vault", "whitelist", "proxies"}

Fatal ==
    /\ Running /\ main \in Stages \ {"whitelist"}
    /\ End("exit 1")
    /\ UNCHANGED <<startVars, main, signaler, sent, sigChan, listener>>

LoadConfig ==
    /\ Running /\ main = "config"
    /\ main' = "vault"
    /\ UNCHANGED <<startVars, signaler, process, sent, sigChan, listener, conns>>

InitializeClient ==
    /\ Running /\ main = "vault"
    /\ vault' = "running"
    /\ main' = "whitelist"
    /\ UNCHANGED <<github, done, signaler, process, sent, sigChan, listener,
                   conns>>

NewWhitelist ==
    /\ Running /\ main = "whitelist"
    /\ main' = "proxies"
    /\ UNCHANGED <<startVars, signaler, process, sent, sigChan, listener, conns>>

(* getTrustedProxies and realip.New; then nothing can fail until Listen:   *)
(* the updates are started, the routes set up, the goroutine spawned.      *)
TrustProxies ==
    /\ Running /\ main = "proxies"
    /\ done' = IF github THEN "open" ELSE "none"
    /\ signaler' = "spawned"
    /\ main' = "bind"
    /\ UNCHANGED <<github, vault, process, sent, sigChan, listener, conns>>

(***************************************************************************)
(* Listen, and what main does when it returns.                             *)
(***************************************************************************)
Register ==
    /\ Running /\ main = "bind"
    /\ listener' = "open"
    /\ main' = "accept"
    /\ UNCHANGED <<startVars, signaler, process, sent, sigChan, conns>>

ListenFails ==
    /\ Running
    /\ main = "bind" \/ (main = "accept" /\ listener = "open")
    /\ main' = "failed"
    /\ UNCHANGED <<startVars, signaler, process, sent, sigChan, listener, conns>>

Accept(c) ==
    /\ Running /\ main = "accept" /\ listener = "open" /\ conns[c] = "none"
    /\ conns' = [conns EXCEPT ![c] = "open"]
    /\ UNCHANGED <<startVars, main, signaler, process, sent, sigChan, listener>>

Answered(c) ==
    /\ Running /\ conns[c] = "open"
    /\ conns' = [conns EXCEPT ![c] = "answered"]
    /\ UNCHANGED <<startVars, main, signaler, process, sent, sigChan, listener>>

Gone(c) ==
    /\ Running /\ conns[c] = "answered"
    /\ conns' = [conns EXCEPT ![c] = "none"]
    /\ UNCHANGED <<startVars, main, signaler, process, sent, sigChan, listener>>

(* Listen returned nil: main falls off its end. *)
MainReturns ==
    /\ Running /\ main = "accept" /\ listener = "closed"
    /\ main' = "returned"
    /\ End("exit 0")
    /\ UNCHANGED <<startVars, signaler, sent, sigChan, listener>>

(* stopIPUpdate: closing a closed channel panics; nil without the updates. *)
StopUpdate ==
    IF done = "closed"
    THEN End("panic") /\ UNCHANGED done
    ELSE /\ done' = IF done = "open" THEN "closed" ELSE done
         /\ UNCHANGED <<process, conns>>

ListenFailedStops ==
    /\ Running /\ main = "failed"
    /\ StopUpdate
    /\ main' = "exiting"
    /\ UNCHANGED <<github, vault, signaler, sent, sigChan, listener>>

Exit ==
    /\ Running /\ main = "exiting"
    /\ End("exit 1")
    /\ UNCHANGED <<startVars, main, signaler, sent, sigChan, listener>>

(***************************************************************************)
(* Signals and the goroutine that shuts down.  Before signal.Notify the    *)
(* runtime's default action ends the process; afterwards a signal goes     *)
(* into the channel if there is room.                                      *)
(***************************************************************************)
Signal ==
    /\ Running /\ sent < MaxSignals
    /\ sent' = sent + 1
    /\ IF signaler \in {"off", "spawned"}
       THEN End("killed") /\ UNCHANGED sigChan
       ELSE sigChan' = TRUE /\ UNCHANGED <<process, conns>>
    /\ UNCHANGED <<startVars, main, signaler, listener>>

Notify ==
    /\ Running /\ signaler = "spawned"
    /\ signaler' = "waiting"
    /\ UNCHANGED <<startVars, main, process, sent, sigChan, listener, conns>>

(* Mutant: every signal starts the shutdown over, not only the first. *)
ReceiveAgain ==
    /\ Running /\ signaler \in {"waiting", "shutdown", "drain"} /\ sigChan
    /\ sigChan' = FALSE
    /\ signaler' = "stop vault"
    /\ UNCHANGED <<startVars, main, process, sent, listener, conns>>

Receive ==
    /\ Running /\ signaler = "waiting" /\ sigChan
    /\ sigChan' = FALSE
    /\ signaler' = "stop vault"
    /\ UNCHANGED <<startVars, main, process, sent, listener, conns>>

StopVault ==
    /\ Running /\ signaler = "stop vault"
    /\ vault' = "stopped"
    /\ signaler' = "stop update"
    /\ UNCHANGED <<github, done, main, process, sent, sigChan, listener, conns>>

SignalerStopsUpdate ==
    /\ Running /\ signaler = "stop update"
    /\ StopUpdate
    /\ signaler' = "shutdown"
    /\ UNCHANGED <<github, vault, main, sent, sigChan, listener>>

(* Mutants: connections are waited for before the listener is closed; the  *)
(* server is shut down before the vault client and the updates.            *)
DrainThenClose ==
    /\ Running /\ signaler = "shutdown"
    /\ \A c \in Connections : conns[c] = "none"
    /\ listener' = IF listener = "open" THEN "closed" ELSE listener
    /\ signaler' = "done"
    /\ UNCHANGED <<startVars, main, process, sent, sigChan, conns>>

ShutdownFirst ==
    /\ Running /\ signaler \in {"stop vault", "shutdown"}
    /\ listener' = IF listener = "open" THEN "closed" ELSE listener
    /\ signaler' = IF signaler = "shutdown" THEN "drain" ELSE "stop vault"
    /\ UNCHANGED <<startVars, main, process, sent, sigChan, conns>>

Shutdown ==
    /\ Running /\ signaler = "shutdown"
    /\ listener' = IF listener = "open" THEN "closed" ELSE listener
    /\ signaler' = IF listener = "none" THEN "done" ELSE "drain"
    /\ UNCHANGED <<startVars, main, process, sent, sigChan, conns>>

Drained ==
    /\ Running /\ signaler = "drain"
    /\ \A c \in Connections : conns[c] # "open"
    /\ signaler' = "done"
    /\ UNCHANGED <<startVars, main, process, sent, sigChan, listener, conns>>

Next ==
    \/ Fatal \/ LoadConfig \/ InitializeClient \/ NewWhitelist \/ TrustProxies
    \/ Register \/ ListenFails \/ MainReturns \/ ListenFailedStops \/ Exit
    \/ Signal \/ Notify \/ Receive \/ StopVault \/ SignalerStopsUpdate
    \/ Shutdown \/ Drained
    \/ \E c \in Connections : Accept(c) \/ Answered(c) \/ Gone(c)

Spec == Init /\ [][Next]_vars

(***************************************************************************)
(* Fairness: the two goroutines are scheduled, and a connection that is    *)
(* open is answered (every request to Vaultwarden times out, and the       *)
(* server has read and write timeouts).  Nothing makes a client connect    *)
(* or a signal come.                                                       *)
(***************************************************************************)
Fairness ==
    /\ WF_vars(LoadConfig) /\ WF_vars(InitializeClient)
    /\ WF_vars(NewWhitelist) /\ WF_vars(TrustProxies)
    /\ WF_vars(Register) /\ WF_vars(MainReturns)
    /\ WF_vars(ListenFailedStops) /\ WF_vars(Exit)
    /\ WF_vars(Notify) /\ WF_vars(Receive) /\ WF_vars(StopVault)
    /\ WF_vars(SignalerStopsUpdate) /\ WF_vars(Shutdown) /\ WF_vars(Drained)
    /\ \A c \in Connections : WF_vars(Answered(c)) /\ WF_vars(Gone(c))

FairSpec == Spec /\ Fairness
-----------------------------------------------------------------------------
(***************************************************************************)
(* Properties.                                                             *)
(***************************************************************************)

(* Every variable holds a value of its kind, and the goroutines exist in   *)
(* the stages in which main has started them.                              *)
TypeOK ==
    /\ github \in BOOLEAN /\ sigChan \in BOOLEAN
    /\ sent \in 0..MaxSignals
    /\ main \in Stages \cup {"bind", "accept", "failed", "exiting", "returned"}
    /\ signaler \in {"off", "spawned", "waiting", "stop vault", "stop update",
                     "shutdown", "drain", "done"}
    /\ main \in Stages <=> signaler = "off"
    /\ process \in {"running", "exit 0", "exit 1", "killed", "panic"}
    /\ vault \in {"none", "running", "stopped"}
    /\ done \in {"none", "open", "closed"}
    /\ main \notin Stages => vault # "none" /\ (done = "none" <=> ~github)
    /\ listener \in {"none", "open", "closed"}
    /\ conns \in [Connections -> {"none", "open", "answered", "aborted"}]

(* The process ends with status 0 only after the vault client and the      *)
(* range updates were stopped: Listen returns as soon as Shutdown closes   *)
(* the listener, so whatever comes after that may never happen.            *)
OrderlyExit ==
    process = "exit 0" => vault = "stopped" /\ done # "open"

(* Unless Listen fails, the updates' channel is closed once, however many  *)
(* signals arrive.                                                         *)
OneCloseWithoutFailure ==
    process = "panic" => main \in {"failed", "exiting"}

(* A signal that finds the server listening ends the process, also when    *)
(* clients go on connecting and when it arrives in the middle of a start.  *)
SignalEndsServer ==
    (listener = "open" /\ sigChan /\ signaler = "waiting")
        ~> process # "running"

(* "Production-ready: [...] graceful shutdown" (README.md:70): a process   *)
(* that ends by itself after a signal has answered its open connections.   *)
GracefulShutdown ==
    process = "exit 0" => \A c \in Connections : conns[c] # "aborted"

(* "Graceful shutdown" (main.go:160): a signal the goroutine receives      *)
(* ends the process.                                                       *)
SignalEndsProcess == signaler = "stop vault" ~> process # "running"

(* "Returns a stop function that should be called to clean up the          *)
(* goroutine" (ipwhitelist.go:202): calling it does not panic.             *)
StopNeverPanics == process # "panic"
=============================================================================
