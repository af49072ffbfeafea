--------------------------- MODULE ServiceProofs ---------------------------
(***************************************************************************)
(* Proofs about Service, for any number of connections and signals.        *)
(***************************************************************************)
EXTENDS Service, TLAPS

(***************************************************************************)
(* The inductive invariant.  The goroutine of the graceful shutdown goes   *)
(* through its steps in order, only it closes the listener, and while      *)
(* Listen has not failed it is the only one to close the updates' channel. *)
(***************************************************************************)
StopsInOrder ==
    /\ signaler \in {"stop update", "shutdown", "drain", "done"}
          => vault = "stopped"
    /\ signaler \in {"shutdown", "drain", "done"} => done # "open"

VaultFirst == main \in {"whitelist", "proxies"} => vault # "none"

ClosedByShutdown == listener = "closed" => signaler \in {"drain", "done"}

ClosedByOne ==
    /\ main \in {"bind", "accept", "returned"}
    /\ signaler \in {"spawned", "waiting", "stop vault", "stop update"}
    => done # "closed"

(* The parts of TypeOK.                                                    *)
Flags == github \in BOOLEAN /\ sigChan \in BOOLEAN

Steps ==
    /\ sent \in 0..MaxSignals
    /\ main \in Stages \cup {"bind", "accept", "failed", "exiting", "returned"}
    /\ signaler \in {"off", "spawned", "waiting", "stop vault", "stop update",
                     "shutdown", "drain", "done"}
    /\ process \in {"running", "exit 0", "exit 1", "killed", "panic"}
    /\ vault \in {"none", "running", "stopped"}
    /\ done \in {"none", "open", "closed"}
    /\ listener \in {"none", "open", "closed"}

Started ==
    /\ main \in Stages <=> signaler = "off"
    /\ main \notin Stages => vault # "none"

Updating == main \notin Stages => (done = "none" <=> ~github)

Conns == conns \in [Connections -> {"none", "open", "answered", "aborted"}]

IInv ==
    /\ TypeOK
    /\ VaultFirst
    /\ StopsInOrder
    /\ ClosedByShutdown
    /\ ClosedByOne
    /\ OrderlyExit
    /\ OneCloseWithoutFailure

USE SignalAssumption DEF Running, Stages, startVars

(* The parts of the type invariant.                                        *)
LEMMA TypeParts == TypeOK <=> Flags /\ Steps /\ Started /\ Updating /\ Conns
BY DEF TypeOK, Flags, Steps, Started, Updating, Conns

(* A process that starts satisfies the inductive invariant.                *)
LEMMA InitInv == Init => IInv
<1> USE DEF Init
<1>1. Init => TypeOK
  <2>1. Init => Flags
    BY DEF Flags
  <2>2. Init => Steps
    BY DEF Steps
  <2>3. Init => Started /\ Updating /\ Conns
    BY DEF Started, Updating, Conns
  <2> QED BY <2>1, <2>2, <2>3, TypeParts
<1>2. Init => /\ VaultFirst /\ StopsInOrder /\ ClosedByShutdown /\ ClosedByOne
              /\ OrderlyExit /\ OneCloseWithoutFailure
  BY DEF VaultFirst, StopsInOrder, ClosedByShutdown, ClosedByOne, OrderlyExit,
         OneCloseWithoutFailure
<1> QED BY <1>1, <1>2 DEF IInv

(* The end of the process leaves every connection in a state of its kind.  *)
LEMMA EndType ==
    ASSUME TypeOK, NEW how \in {"exit 0", "exit 1", "killed", "panic"},
           End(how)
    PROVE  /\ process' = how
           /\ conns' \in [Connections -> {"none", "open", "answered", "aborted"}]
BY DEF TypeOK, End

(* The stages of the start, and the server's registration.                 *)
LEMMA StartInv ==
    IInv /\ (LoadConfig \/ InitializeClient \/ NewWhitelist \/ TrustProxies
               \/ Register) => IInv'
<1> SUFFICES ASSUME IInv,
                    LoadConfig \/ InitializeClient \/ NewWhitelist
                      \/ TrustProxies \/ Register
             PROVE  IInv'
  OBVIOUS
<1> USE DEF IInv, LoadConfig, InitializeClient, NewWhitelist, TrustProxies,
            Register
<1>1. TypeOK'
  <2>1. Flags'
    BY DEF TypeOK, Flags
  <2>2. Steps'
    BY DEF TypeOK, Steps
  <2>3. Started'
    <3>1. CASE LoadConfig \/ NewWhitelist \/ Register
      BY <3>1 DEF TypeOK, Started
    <3>2. CASE InitializeClient
      BY <3>2 DEF TypeOK, Started
    <3>3. CASE TrustProxies
      BY <3>3 DEF TypeOK, Started, VaultFirst
    <3> QED BY <3>1, <3>2, <3>3
  <2>4. Updating'
    BY DEF TypeOK, Updating
  <2>5. Conns'
    BY DEF TypeOK, Conns
  <2> QED BY <2>1, <2>2, <2>3, <2>4, <2>5
         DEF TypeOK, Flags, Steps, Started, Updating, Conns
<1>2. VaultFirst' /\ StopsInOrder' /\ ClosedByShutdown' /\ ClosedByOne'
  BY DEF TypeOK, VaultFirst, StopsInOrder, ClosedByShutdown, ClosedByOne
<1>3. OrderlyExit' /\ OneCloseWithoutFailure'
  BY DEF OrderlyExit, OneCloseWithoutFailure
<1> QED BY <1>1, <1>2, <1>3

(* The connections, and the steps of the two goroutines that neither end   *)
(* the process nor stop the updates.                                       *)
LEMMA ServingInv ==
    ASSUME IInv,
           \/ ListenFails \/ Notify \/ Receive \/ StopVault \/ Shutdown
           \/ Drained
           \/ \E c \in Connections : Accept(c) \/ Answered(c) \/ Gone(c)
    PROVE  IInv'
<1> USE DEF IInv, ListenFails, Notify, Receive, StopVault, Shutdown, Drained,
            Accept, Answered, Gone
<1>1. TypeOK'
  <2>1. Flags'
    BY DEF TypeOK, Flags
  <2>2. Steps'
    BY DEF TypeOK, Steps
  <2>3. Started'
    BY DEF TypeOK, Started
  <2>4. Updating'
    BY DEF TypeOK, Updating
  <2>5. Conns'
    BY DEF TypeOK, Conns
  <2> QED BY <2>1, <2>2, <2>3, <2>4, <2>5
         DEF TypeOK, Flags, Steps, Started, Updating, Conns
<1>2. VaultFirst' /\ StopsInOrder' /\ ClosedByShutdown' /\ ClosedByOne'
  BY DEF TypeOK, VaultFirst, StopsInOrder, ClosedByShutdown, ClosedByOne
<1>3. OrderlyExit' /\ OneCloseWithoutFailure'
  BY DEF OrderlyExit, OneCloseWithoutFailure
<1> QED BY <1>1, <1>2, <1>3

(* Signals are counted up to their bound.                                  *)
LEMMA SignalCounted == ASSUME TypeOK, Signal PROVE sent' \in 0..MaxSignals
<1>1. sent < MaxSignals /\ sent' = sent + 1
  BY DEF Signal
<1>2. sent \in 0..MaxSignals
  BY DEF TypeOK
<1> QED BY <1>1, <1>2

(* The steps that end the process, or may.                                 *)
LEMMA EndingInv ==
    IInv /\ (Fatal \/ MainReturns \/ Exit \/ Signal) => IInv'
<1> SUFFICES ASSUME IInv, Fatal \/ MainReturns \/ Exit \/ Signal PROVE IInv'
  OBVIOUS
<1> USE DEF IInv, Fatal, MainReturns, Exit, Signal
<1>1. TypeOK'
  <2>1. Flags'
    BY DEF TypeOK, Flags, End
  <2>2. Steps'
    <3>1. process' \in {"running", "exit 0", "exit 1", "killed", "panic"}
      BY EndType DEF TypeOK
    <3>2. sent' \in 0..MaxSignals
      <4>1. CASE Signal
        BY <4>1, SignalCounted
      <4>2. CASE Fatal \/ MainReturns \/ Exit
        BY <4>2 DEF TypeOK
      <4> QED BY <4>1, <4>2
    <3>3. UNCHANGED <<signaler, vault, done, listener>>
      OBVIOUS
    <3>4. main' \in Stages \cup {"bind", "accept", "failed", "exiting",
                                "returned"}
      BY DEF TypeOK
    <3> QED BY <3>1, <3>2, <3>3, <3>4 DEF TypeOK, Steps
  <2>3. Started'
    BY DEF TypeOK, Started
  <2>4. Updating'
    BY DEF TypeOK, Updating
  <2>5. Conns'
    BY EndType DEF TypeOK, Conns
  <2> QED BY <2>1, <2>2, <2>3, <2>4, <2>5
         DEF TypeOK, Flags, Steps, Started, Updating, Conns
<1>2. VaultFirst' /\ StopsInOrder' /\ ClosedByShutdown' /\ ClosedByOne'
  BY DEF TypeOK, VaultFirst, StopsInOrder, ClosedByShutdown, ClosedByOne
<1>3. OrderlyExit'
  BY DEF OrderlyExit, StopsInOrder, ClosedByShutdown, End
<1>4. OneCloseWithoutFailure'
  BY DEF OneCloseWithoutFailure, End
<1> QED BY <1>1, <1>2, <1>3, <1>4

(* Both callers of the stop function: it panics only for the second one,   *)
(* which there is only when Listen has failed.                             *)
LEMMA StopUpdateInv == IInv /\ (ListenFailedStops \/ SignalerStopsUpdate) => IInv'
<1> SUFFICES ASSUME IInv, ListenFailedStops \/ SignalerStopsUpdate PROVE IInv'
  OBVIOUS
<1> USE DEF IInv, ListenFailedStops, SignalerStopsUpdate, StopUpdate
<1>1. TypeOK'
  <2>1. Flags'
    BY DEF TypeOK, Flags, End
  <2>2. Steps'
    <3>1. process' \in {"running", "exit 0", "exit 1", "killed", "panic"}
      BY EndType DEF TypeOK
    <3> QED BY <3>1 DEF TypeOK, Steps
  <2>3. Started'
    BY DEF TypeOK, Started
  <2>4. Updating'
    BY DEF TypeOK, Updating
  <2>5. Conns'
    BY EndType DEF TypeOK, Conns
  <2> QED BY <2>1, <2>2, <2>3, <2>4, <2>5
         DEF TypeOK, Flags, Steps, Started, Updating, Conns
<1>2. VaultFirst' /\ StopsInOrder' /\ ClosedByShutdown' /\ ClosedByOne'
  BY DEF TypeOK, VaultFirst, StopsInOrder, ClosedByShutdown, ClosedByOne
<1>3. OrderlyExit' /\ OneCloseWithoutFailure'
  BY DEF TypeOK, OrderlyExit, OneCloseWithoutFailure, ClosedByOne, End
<1> QED BY <1>1, <1>2, <1>3

(* Nothing happens.                                                        *)
LEMMA StutterInv == IInv /\ UNCHANGED vars => IInv'
<1> SUFFICES ASSUME IInv, UNCHANGED vars PROVE IInv'
  OBVIOUS
<1> USE DEF IInv, vars
<1>1. Flags' /\ Started' /\ Updating' /\ Conns'
  BY DEF TypeOK, Flags, Started, Updating, Conns
<1>2. Steps'
  BY DEF TypeOK, Steps
<1>3. TypeOK'
  BY <1>1, <1>2
         DEF TypeOK, Flags, Steps, Started, Updating, Conns
<1> QED BY <1>3 DEF VaultFirst, StopsInOrder, ClosedByShutdown, ClosedByOne, OrderlyExit,
                    OneCloseWithoutFailure

(* Every reachable state satisfies the inductive invariant.                *)
THEOREM Invariant == Spec => []IInv
<1>1. IInv /\ [Next]_vars => IInv'
  BY StartInv, ServingInv, EndingInv, StopUpdateInv, StutterInv DEF Next
<1> QED BY <1>1, InitInv, PTL DEF Spec

(* The process and its goroutines keep their types.                        *)
THEOREM TypeCorrect == Spec => []TypeOK
<1>1. IInv => TypeOK
  BY DEF IInv
<1> QED BY <1>1, Invariant, PTL

(* An exit with status 0 comes after Stop and the end of the updates       *)
(* (main.go:168-174).                                                      *)
THEOREM ExitIsOrderly == Spec => []OrderlyExit
<1>1. IInv => OrderlyExit
  BY DEF IInv
<1> QED BY <1>1, Invariant, PTL

(* Without a failure of Listen the updates' channel is closed at most once *)
(* (main.go:170-184).                                                      *)
THEOREM ClosedOnce == Spec => []OneCloseWithoutFailure
<1>1. IInv => OneCloseWithoutFailure
  BY DEF IInv
<1> QED BY <1>1, Invariant, PTL
=============================================================================
