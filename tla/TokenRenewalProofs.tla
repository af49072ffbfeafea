------------------------ MODULE TokenRenewalProofs ------------------------
(***************************************************************************)
(* Proofs about TokenRenewal, for every number of callers, tokens and key  *)
(* versions, both kinds of login and every server the module allows.       *)
(***************************************************************************)
EXTENDS TokenRenewal, TLAPS

-----------------------------------------------------------------------------
(***************************************************************************)
(* The inductive invariant.                                                *)
(***************************************************************************)

(* What is missing is missing together: whoever has come as far as reading *)
(* or replacing the access token finds one, and a key with it.             *)
Credentials ==
    /\ accessToken # NoToken => symKey # 0
    /\ refreshToken # NoToken => accessToken # NoToken
    /\ ~expiring => accessToken # NoToken
    /\ \A w \in Callers :
          /\ held[w].token # NoToken => accessToken # NoToken
          /\ pc[w] \in {"snapshot", "refreshed"} => accessToken # NoToken

(* Before the first success one goroutine runs; afterwards renewMu is held *)
(* throughout a renewal.                                                   *)
Serialized ==
    /\ ~started => \A v, w \in Callers :
                      pc[v] # "idle" /\ pc[w] # "idle" => v = w
    /\ started => \A w \in Callers : pc[w] \in RenewalSteps => renewMu
    /\ RenewalsAreSerialized

(* A token response is held exactly while it is handled, and its token is  *)
(* nobody else's yet.                                                      *)
Replies ==
    \A w \in Callers :
        /\ pc[w] \in {"refreshed", "profile", "publish"} =>
              /\ reply[w].token \in Tokens
              /\ reply[w].token # accessToken
              /\ \A v \in Callers : reply[w].token # held[v].token
        /\ pc[w] \notin {"refreshed", "profile", "publish"} =>
              reply[w] = NoReply
        /\ pc[w] \in {"login", "profile", "publish"} => master[w] # 0

(* Whatever the server still honours is of the key it will be used with.   *)
Paired ==
    /\ TokenKeyPaired
    /\ refreshToken \in grants => symKey = epoch
    /\ \A w \in Callers :
          reply[w].token \in live \/ reply[w].grant \in grants =>
              /\ pc[w] = "refreshed" => symKey = epoch
              /\ pc[w] = "publish" => reply[w].key = epoch

(* A caller that renews, or is about to, has reason to.                    *)
Needed ==
    \A w \in Callers :
        \/ pc[w] \in RenewalSteps /\ started
        \/ pc[w] = "renew" /\ held[w].token = accessToken
        => accessToken \notin live \/ expiring

IInv == TypeOK /\ Credentials /\ Serialized /\ Replies /\ Paired /\ Needed

-----------------------------------------------------------------------------
(* Every step from here on may use what is assumed of the constants.       *)
USE TokenAssumption, KeyAssumption, FlagAssumption

(* Where the client may forget a token, the server does nothing.  (Names   *)
(* nobody remembers leave its sets: they are free again.)                  *)
LEMMA Idling ==
    ASSUME ServerIdles
    PROVE  /\ live' \subseteq live /\ grants' \subseteq grants
           /\ UNCHANGED <<calm, rejects, epoch>>
BY DEF ServerIdles

(* A call that begins, or goes on after the login that starts the client,  *)
(* reads the token it will compare with.                                   *)
LEMMA EnsureValidTokenStep ==
    ASSUME IInv, NEW w \in Callers, EnsureValidToken(w)
    PROVE  IInv'
<1> USE DEF EnsureValidToken, Goto, server, credentials, client, calls, IInv
<1>0. /\ live' \subseteq live /\ grants' \subseteq grants
      /\ UNCHANGED <<calm, rejects, epoch>>
  BY Idling
<1>1. TypeOK'
  BY <1>0 DEF TypeOK
<1>2. Credentials'
  BY <1>0 DEF TypeOK, Credentials
<1>3. Serialized'
  BY <1>0 DEF TypeOK, Serialized, RenewalsAreSerialized, RenewalSteps
<1>4. Replies'
  BY <1>0 DEF TypeOK, Replies
<1>5. Paired'
  BY <1>0 DEF TypeOK, Paired, TokenKeyPaired
<1>6. Needed'
  BY <1>0 DEF TypeOK, Needed, RenewalSteps
<1> QED BY <1>1, <1>2, <1>3, <1>4, <1>5, <1>6

(* The token and the key of a request are read in one step: they pair as   *)
(* the credentials do, and neither is empty.                               *)
LEMMA SnapshotStep ==
    ASSUME IInv, NEW w \in Callers, Snapshot(w)
    PROVE  IInv'
<1> USE DEF Snapshot, Goto, server, credentials, client, calls, IInv
<1>0. /\ live' \subseteq live /\ grants' \subseteq grants
      /\ UNCHANGED <<calm, rejects, epoch>>
  BY Idling
<1>1. TypeOK'
  BY <1>0 DEF Credentials, TypeOK, TokenOrNone, Keys, CurrentKey
<1>2. Credentials'
  BY <1>0 DEF TypeOK, Credentials
<1>3. Serialized'
  BY <1>0 DEF TypeOK, Serialized, RenewalsAreSerialized, RenewalSteps
<1>4. Replies'
  BY <1>0 DEF TypeOK, Replies
<1>5. Paired'
  BY <1>0 DEF TypeOK, Paired, TokenKeyPaired, CurrentKey
<1>6. Needed'
  BY <1>0 DEF TypeOK, Needed, RenewalSteps
<1> QED BY <1>1, <1>2, <1>3, <1>4, <1>5, <1>6

(* A call that is done,                                                    *)
LEMMA SyncAnsweredStep ==
    ASSUME IInv, NEW w \in Callers, SyncAnswered(w)
    PROVE  IInv'
<1> USE DEF SyncAnswered, Goto, server, credentials, client, calls, IInv
<1>1. TypeOK'
  BY DEF TypeOK
<1>2. Credentials'
  BY DEF TypeOK, Credentials
<1>3. Serialized'
  BY DEF TypeOK, Serialized, RenewalsAreSerialized, RenewalSteps
<1>4. Replies'
  BY DEF TypeOK, Replies
<1>5. Paired'
  BY DEF TypeOK, Paired, TokenKeyPaired
<1>6. Needed'
  BY DEF TypeOK, Needed, RenewalSteps
<1> QED BY <1>1, <1>2, <1>3, <1>4, <1>5, <1>6

(* one whose token is dead, so that it has reason to renew,                *)
LEMMA SyncUnauthorizedStep ==
    ASSUME IInv, NEW w \in Callers, SyncUnauthorized(w)
    PROVE  IInv'
<1> USE DEF SyncUnauthorized, Goto, server, credentials, client, calls, IInv
<1>1. TypeOK'
  BY DEF TypeOK
<1>2. Credentials'
  BY DEF TypeOK, Credentials
<1>3. Serialized'
  BY DEF TypeOK, Serialized, RenewalsAreSerialized, RenewalSteps
<1>4. Replies'
  BY DEF TypeOK, Replies
<1>5. Paired'
  BY DEF TypeOK, Paired, TokenKeyPaired
<1>6. Needed'
  BY DEF TypeOK, Needed, RenewalSteps
<1> QED BY <1>1, <1>2, <1>3, <1>4, <1>5, <1>6

(* one whose request failed,                                               *)
LEMMA SyncFailsStep ==
    ASSUME IInv, NEW w \in Callers, SyncFails(w)
    PROVE  IInv'
<1> USE DEF SyncFails, Goto, server, credentials, client, calls, IInv
<1>1. TypeOK'
  BY DEF TypeOK
<1>2. Credentials'
  BY DEF TypeOK, Credentials
<1>3. Serialized'
  BY DEF TypeOK, Serialized, RenewalsAreSerialized, RenewalSteps
<1>4. Replies'
  BY DEF TypeOK, Replies
<1>5. Paired'
  BY DEF TypeOK, Paired, TokenKeyPaired
<1>6. Needed'
  BY DEF TypeOK, Needed, RenewalSteps
<1> QED BY <1>1, <1>2, <1>3, <1>4, <1>5, <1>6

(* one whose renewed token is dead too,                                    *)
LEMMA RetryRejectedStep ==
    ASSUME IInv, NEW w \in Callers, RetryRejected(w)
    PROVE  IInv'
<1> USE DEF RetryRejected, Goto, server, credentials, client, calls, IInv
<1>1. TypeOK'
  BY DEF TypeOK
<1>2. Credentials'
  BY DEF TypeOK, Credentials
<1>3. Serialized'
  BY DEF TypeOK, Serialized, RenewalsAreSerialized, RenewalSteps
<1>4. Replies'
  BY DEF TypeOK, Replies
<1>5. Paired'
  BY DEF TypeOK, Paired, TokenKeyPaired
<1>6. Needed'
  BY DEF TypeOK, Needed
<1> QED BY <1>1, <1>2, <1>3, <1>4, <1>5, <1>6

(* and one that returns.  Only the first success lets other calls in, and  *)
(* the caller that had it renews nothing.                                  *)
LEMMA SyncReturnsStep ==
    ASSUME IInv, NEW w \in Callers, SyncReturns(w)
    PROVE  IInv'
<1> USE DEF SyncReturns, Goto, server, credentials, client, calls, IInv
<1>0. /\ live' \subseteq live /\ grants' \subseteq grants
      /\ UNCHANGED <<calm, rejects, epoch>>
  BY Idling
<1>1. TypeOK'
  BY <1>0 DEF TypeOK, TokenOrNone, Keys
<1>2. Credentials'
  BY <1>0 DEF TypeOK, Credentials
<1>3. Serialized'
  BY <1>0 DEF TypeOK, Serialized, RenewalsAreSerialized, RenewalSteps
<1>4. Replies'
  BY <1>0 DEF TypeOK, Replies
<1>5. Paired'
  BY <1>0 DEF TypeOK, Paired, TokenKeyPaired
<1>6. Needed'
  BY <1>0 DEF TypeOK, Needed, Serialized, RenewalsAreSerialized, RenewalSteps
<1> QED BY <1>1, <1>2, <1>3, <1>4, <1>5, <1>6

(* The login that starts the client, while nothing else runs.              *)
LEMMA InitializeStep ==
    ASSUME IInv, NEW w \in Callers, Initialize(w)
    PROVE  IInv'
<1> USE DEF Initialize, Goto, server, credentials, client, calls, IInv
<1>1. TypeOK'
  BY DEF TypeOK, RenewalSteps
<1>2. Credentials'
  BY DEF TypeOK, Credentials
<1>3. Serialized'
  BY DEF TypeOK, Serialized, RenewalsAreSerialized
<1>4. Replies'
  BY DEF TypeOK, Replies
<1>5. Paired'
  BY DEF TypeOK, Paired, TokenKeyPaired
<1>6. Needed'
  BY DEF TypeOK, Needed
<1> QED BY <1>1, <1>2, <1>3, <1>4, <1>5, <1>6

(* Whoever enters a renewal takes renewMu, so nobody else renews, and its  *)
(* token is still the current one, so it still has reason to.              *)
LEMMA LockRenewMuStep ==
    ASSUME IInv, NEW w \in Callers, LockRenewMu(w)
    PROVE  IInv'
<1> USE DEF LockRenewMu, Goto, server, credentials, client, calls, IInv
<1>1. TypeOK'
  BY DEF TypeOK, RenewalSteps
<1>2. Credentials'
  BY DEF TypeOK, Credentials, AlreadyRenewed
<1>3. Serialized'
  <2>1. CASE AlreadyRenewed(w)
    <3>1. pc[w] = "renew" /\ pc' = [pc EXCEPT ![w] = "snapshot"]
          /\ UNCHANGED <<renewMu, started>>
      BY <2>1
    <3> QED BY <3>1 DEF TypeOK, Serialized, RenewalsAreSerialized,
                        RenewalSteps
  <2>2. CASE ~AlreadyRenewed(w)
    <3>1. ~renewMu /\ pc[w] = "renew" /\ pc' = [pc EXCEPT ![w] = "refresh"]
          /\ renewMu' /\ started' = started
      BY <2>2 DEF RenewMuFree, TypeOK
    <3>2. \A v \in Callers \ {w} : pc[v] \notin RenewalSteps
      BY <3>1 DEF Serialized, TypeOK, RenewalSteps
    <3>3. RenewalsAreSerialized'
      BY <3>1, <3>2 DEF RenewalsAreSerialized, TypeOK, RenewalSteps
    <3> QED BY <3>1, <3>3 DEF Serialized, TypeOK, RenewalSteps
  <2> QED BY <2>1, <2>2
<1>4. Replies'
  BY DEF TypeOK, Replies
<1>5. Paired'
  BY DEF TypeOK, Paired, TokenKeyPaired
<1>6. Needed'
  BY DEF TypeOK, Needed, RenewalSteps, AlreadyRenewed
<1> QED BY <1>1, <1>2, <1>3, <1>4, <1>5, <1>6

(* A refused or failed refresh drops the response.                         *)
LEMMA RefreshFailsStep ==
    ASSUME IInv, NEW w \in Callers, RefreshFails(w)
    PROVE  IInv'
<1> USE DEF RefreshFails, Goto, server, credentials, client, calls, IInv
<1>0. /\ live' \subseteq live /\ grants' \subseteq grants
      /\ UNCHANGED <<calm, rejects, epoch>>
  BY Idling
<1>1. TypeOK'
  BY <1>0 DEF TypeOK, TokenOrNone, Keys, NoReply, RenewalSteps
<1>2. Credentials'
  BY <1>0 DEF TypeOK, Credentials
<1>3. Serialized'
  BY <1>0 DEF TypeOK, Serialized, RenewalsAreSerialized, RenewalSteps
<1>4. Replies'
  BY <1>0 DEF TypeOK, Replies
<1>5. Paired'
  BY <1>0 DEF TypeOK, Paired, TokenKeyPaired
<1>6. Needed'
  BY <1>0 DEF TypeOK, Needed
<1> QED BY <1>1, <1>2, <1>3, <1>4, <1>5, <1>6

(* A master key belongs to a version of the key, never to none.            *)
LEMMA PreloginStep ==
    ASSUME IInv, NEW w \in Callers, Prelogin(w)
    PROVE  IInv'
<1> USE DEF Prelogin, Goto, server, credentials, client, calls, IInv
<1>1. TypeOK'
  BY DEF TypeOK, RenewalSteps
<1>2. Credentials'
  BY DEF TypeOK, Credentials
<1>3. Serialized'
  BY DEF TypeOK, Serialized, RenewalsAreSerialized, RenewalSteps
<1>4. Replies'
  BY DEF TypeOK, Replies
<1>5. Paired'
  BY DEF TypeOK, Paired, TokenKeyPaired
<1>6. Needed'
  BY DEF TypeOK, Needed
<1> QED BY <1>1, <1>2, <1>3, <1>4, <1>5, <1>6

(* The profile brings the key of the version its token is accepted for.    *)
LEMMA fetchProfileKeyStep ==
    ASSUME IInv, NEW w \in Callers, fetchProfileKey(w)
    PROVE  IInv'
<1> USE DEF fetchProfileKey, Goto, server, credentials, client, calls, IInv
<1>1. TypeOK'
  BY DEF TypeOK, RenewalSteps
<1>2. Credentials'
  BY DEF TypeOK, Credentials
<1>3. Serialized'
  BY DEF TypeOK, Serialized, RenewalsAreSerialized
<1>4. Replies'
  BY DEF TypeOK, Replies
<1>5. Paired'
  BY DEF TypeOK, Paired, TokenKeyPaired
<1>6. Needed'
  BY DEF TypeOK, Needed
<1> QED BY <1>1, <1>2, <1>3, <1>4, <1>5, <1>6

(* A failed login drops the response and gives renewMu back.               *)
LEMMA AuthenticateFailsStep ==
    ASSUME IInv, NEW w \in Callers, AuthenticateFails(w)
    PROVE  IInv'
<1> USE DEF AuthenticateFails, Goto, server, credentials, client, calls, IInv
<1>0. /\ live' \subseteq live /\ grants' \subseteq grants
      /\ UNCHANGED <<calm, rejects, epoch>>
  BY Idling
<1>1. TypeOK'
  <2>1. reply' \in [Callers -> [token : TokenOrNone, grant : TokenOrNone,
                                key : Keys]]
    BY DEF TypeOK, TokenOrNone, Keys, NoReply
  <2>2. pc' = [pc EXCEPT ![w] = "err"] /\ renewMu' = FALSE
        /\ master' = [master EXCEPT ![w] = 0]
    BY DEF UnlockRenewMu
  <2>3. pc' \in [Callers -> {"idle", "ensure", "snapshot", "sync",
                             "rejected", "renew", "ok", "err"} \cup RenewalSteps]
        /\ \A v \in Callers : pc'[v] = "sync" => pc[v] = "sync"
    BY <2>2 DEF TypeOK
  <2>4. master' \in [Callers -> Keys]
    BY <2>2 DEF TypeOK, Keys
  <2>5. UNCHANGED <<accessToken, refreshToken, expiring, symKey, held, retried,
                  client>>
    OBVIOUS
  <2> HIDE DEF AuthenticateFails
  <2> QED BY <1>0, <2>1, <2>2, <2>3, <2>4, <2>5 DEF TypeOK
<1>2. Credentials'
  BY <1>0 DEF TypeOK, Credentials
<1>3. Serialized'
  BY <1>0 DEF TypeOK, Serialized, RenewalsAreSerialized, RenewalSteps,
              UnlockRenewMu
<1>4. Replies'
  BY <1>0 DEF TypeOK, Replies
<1>5. Paired'
  <2>1. /\ pc' = [pc EXCEPT ![w] = "err"]
        /\ reply' = [reply EXCEPT ![w] = NoReply]
    OBVIOUS
  <2>2. TokenKeyPaired'
    BY <1>0, <2>1 DEF TypeOK, Paired, TokenKeyPaired
  <2>3. (refreshToken \in grants => symKey = epoch)'
    BY <1>0 DEF Paired
  <2>4. ASSUME NEW v \in Callers
        PROVE  (reply[v].token \in live \/ reply[v].grant \in grants =>
                  /\ pc[v] = "refreshed" => symKey = epoch
                  /\ pc[v] = "publish" => reply[v].key = epoch)'
    BY <1>0, <2>1 DEF TypeOK, Paired
  <2> QED BY <2>2, <2>3, <2>4 DEF Paired
<1>6. Needed'
  BY <1>0 DEF TypeOK, Needed
<1> QED BY <1>1, <1>2, <1>3, <1>4, <1>5, <1>6

(* A refreshed token takes the place of the current one.  The key stays,   *)
(* and a response still honoured is of its version.                        *)
LEMMA RefreshAccessTokenStep ==
    ASSUME IInv, NEW w \in Callers, RefreshAccessToken(w)
    PROVE  IInv'
<1> USE DEF RefreshAccessToken, Goto, server, credentials, client, calls, IInv
<1>0. /\ live' \subseteq live /\ grants' \subseteq grants
      /\ UNCHANGED <<calm, rejects, epoch>>
  BY Idling
<1>1. TypeOK'
  <2>1. reply' \in [Callers -> [token : TokenOrNone, grant : TokenOrNone,
                                key : Keys]]
    BY DEF TypeOK, TokenOrNone, Keys, NoReply
  <2>2. pc' = [pc EXCEPT ![w] = "snapshot"] /\ renewMu' = FALSE
    BY DEF UnlockRenewMu
  <2>3. accessToken' \in TokenOrNone /\ refreshToken' \in TokenOrNone
    BY DEF TypeOK
  <2> QED BY <1>0, <2>1, <2>2, <2>3 DEF TypeOK, TokenOrNone, Keys,
                                        RenewalSteps
<1>2. Credentials'
  BY <1>0 DEF TypeOK, Credentials, Replies
<1>3. Serialized'
  BY <1>0 DEF TypeOK, Serialized, RenewalsAreSerialized, RenewalSteps,
              UnlockRenewMu
<1>4. Replies'
  BY <1>0 DEF TypeOK, Replies, Serialized, RenewalsAreSerialized,
              RenewalSteps
<1>5. Paired'
  BY <1>0 DEF TypeOK, Paired, TokenKeyPaired
<1>6. Needed'
  BY <1>0 DEF TypeOK, Needed, Replies, Serialized, RenewalsAreSerialized,
              RenewalSteps, UnlockRenewMu
<1> QED BY <1>1, <1>2, <1>3, <1>4, <1>5, <1>6

(* A login replaces token, refresh token, expiry and key in one step.      *)
LEMMA AuthenticateStep ==
    ASSUME IInv, NEW w \in Callers, Authenticate(w)
    PROVE  IInv'
<1> USE DEF Authenticate, Goto, server, credentials, client, calls, IInv
<1>0. /\ live' \subseteq live /\ grants' \subseteq grants
      /\ UNCHANGED <<calm, rejects, epoch>>
  BY Idling
<1>1. TypeOK'
  <2>1. reply' \in [Callers -> [token : TokenOrNone, grant : TokenOrNone,
                                key : Keys]]
    BY DEF TypeOK, TokenOrNone, Keys, NoReply
  <2>2. pc' \in [Callers -> {"idle", "ensure", "snapshot", "sync", "rejected",
                             "renew", "ok", "err"} \cup RenewalSteps]
    BY DEF TypeOK
  <2>3. /\ accessToken' \in TokenOrNone /\ refreshToken' \in TokenOrNone
        /\ symKey' \in Keys
    BY DEF TypeOK
  <2>4. /\ renewMu' = FALSE /\ master' = [master EXCEPT ![w] = 0]
        /\ pc'[w] # "sync"
    BY DEF UnlockRenewMu, TypeOK
  <2>5. \A v \in Callers : pc'[v] = "sync" => pc[v] = "sync"
    BY <2>4 DEF TypeOK
  <2>6. master' \in [Callers -> Keys]
    BY <2>4 DEF TypeOK, Keys
  <2>7. expiring' = FALSE /\ UNCHANGED <<held, retried, client>>
    OBVIOUS
  <2> HIDE DEF Authenticate
  <2> QED BY <1>0, <2>1, <2>2, <2>3, <2>4, <2>5, <2>6, <2>7 DEF TypeOK
<1>2. Credentials'
  BY <1>0 DEF TypeOK, Credentials, Replies, TokenOrNone, DecryptsKey
<1>3. Serialized'
  BY <1>0 DEF TypeOK, Serialized, RenewalsAreSerialized, RenewalSteps,
              UnlockRenewMu
<1>4. Replies'
  BY <1>0 DEF TypeOK, Replies, Serialized, RenewalsAreSerialized,
              RenewalSteps
<1>5. Paired'
  BY <1>0 DEF TypeOK, Paired, TokenKeyPaired, Replies, NoReply, Serialized,
              RenewalsAreSerialized, RenewalSteps, DecryptsKey
<1>6. Needed'
  BY <1>0 DEF TypeOK, Needed, Replies, Serialized, RenewalsAreSerialized,
              RenewalSteps, UnlockRenewMu
<1> QED BY <1>1, <1>2, <1>3, <1>4, <1>5, <1>6

(* A client that was not started has neither credentials nor calls.        *)
LEMMA InitInv == Init => IInv
<1> SUFFICES ASSUME Init PROVE IInv
  OBVIOUS
<1> USE DEF Init
<1>1. TypeOK
  <2>1. /\ held \in [Callers -> [token : TokenOrNone, key : Keys]]
        /\ reply \in [Callers -> [token : TokenOrNone, grant : TokenOrNone,
                                  key : Keys]]
    BY DEF TokenOrNone, Keys, NoReply
  <2>2. master \in [Callers -> Keys] /\ epoch \in Keys \ {0} /\ symKey \in Keys
    BY DEF Keys
  <2> QED BY <2>1, <2>2 DEF TypeOK, TokenOrNone
<1>2. Credentials
  BY DEF Credentials
<1>3. Serialized
  BY DEF Serialized, RenewalsAreSerialized, RenewalSteps
<1>4. Replies
  BY DEF Replies
<1>5. Paired
  BY DEF Paired, TokenKeyPaired, NoReply
<1>6. Needed
  BY DEF Needed, RenewalSteps
<1> QED BY <1>1, <1>2, <1>3, <1>4, <1>5, <1>6 DEF IInv

(* The environment only ever takes tokens and grants away, and a new key   *)
(* version takes all of them: whatever the server still honours was of the *)
(* current version before.                                                 *)
LEMMA EnvironmentStep == ASSUME IInv, Environment PROVE IInv'
<1> USE DEF IInv
<1>0. /\ UNCHANGED <<accessToken, refreshToken, symKey, renewMu, client,
                     pc, calls>>
      /\ live' \subseteq live /\ grants' \subseteq grants
      /\ expiring => expiring'
      /\ expiring' # expiring => accessToken # NoToken
      /\ expiring' \in BOOLEAN /\ calm' \in BOOLEAN /\ rejects' \in BOOLEAN
      /\ epoch' \in Keys \ {0}
      /\ epoch' # epoch => live' = {} /\ grants' = {}
  <2> USE DEF credentials, client, server, TypeOK
  <2>1. CASE RevokeSession
    BY <2>1 DEF RevokeSession
  <2>2. CASE RotateKey
    BY <2>2 DEF RotateKey, Keys
  <2>3. CASE TokenExpires
    BY <2>3 DEF TokenExpires
  <2>4. CASE ClockPasses
    BY <2>4 DEF ClockPasses
  <2>5. CASE CalmsDown
    BY <2>5 DEF CalmsDown
  <2> QED BY <2>1, <2>2, <2>3, <2>4, <2>5 DEF Environment
<1> USE <1>0 DEF client, calls
<1>1. TypeOK'
  BY DEF TypeOK, TokenOrNone, Keys
<1>2. Credentials'
  BY DEF Credentials
<1>3. Serialized'
  BY DEF Serialized, RenewalsAreSerialized
<1>4. Replies'
  BY DEF Replies
<1>5. Paired'
  BY DEF Paired, TokenKeyPaired
<1>6. Needed'
  BY DEF Needed
<1> QED BY <1>1, <1>2, <1>3, <1>4, <1>5, <1>6

(* A minted token is nobody else's.                                        *)
LEMMA MintedIsFresh ==
    ASSUME NEW t, NEW accepted, Mint(t, accepted)
    PROVE  /\ t \in Tokens /\ t # accessToken /\ t # refreshToken
           /\ \A v \in Callers : /\ t # held[v].token
                                 /\ t # reply[v].token /\ t # reply[v].grant
           /\ live \subseteq live' /\ live' \subseteq live \cup {t}
BY DEF Mint, Remembered, RememberedGrants

(* A granted refresh brings a token nobody has, of the version of the      *)
(* refresh token it was minted for.                                        *)
LEMMA RefreshGrantedStep ==
    ASSUME IInv, NEW w \in Callers, RefreshGranted(w)
    PROVE  IInv'
<1> USE DEF IInv
<1>1. PICK t \in Tokens :
        /\ Mint(t, ~rejects)
        /\ \E g \in GrantWith(t) :
                /\ grants' = grants \cup ({g} \ {NoToken})
                /\ reply' = [reply EXCEPT ![w] =
                                [token |-> t, grant |-> g, key |-> 0]]
  BY DEF RefreshGranted
<1>2. PICK g \in {t, NoToken} :
                /\ grants' = grants \cup ({g} \ {NoToken})
                /\ reply' = [reply EXCEPT ![w] =
                                [token |-> t, grant |-> g, key |-> 0]]
  BY <1>1 DEF GrantWith
<1>3. /\ t # accessToken /\ t # refreshToken
      /\ \A v \in Callers : /\ t # held[v].token
                            /\ t # reply[v].token /\ t # reply[v].grant
      /\ live' \subseteq live \cup {t}
  BY <1>1, MintedIsFresh
<1>4. /\ pc[w] = "refresh" /\ pc' = [pc EXCEPT ![w] = "refreshed"]
      /\ refreshToken \in grants
      /\ UNCHANGED <<calm, rejects, epoch, credentials, renewMu, held,
                     retried, master, client>>
  BY DEF RefreshGranted, Goto
<1> USE DEF credentials, client
<1>5. TypeOK'
  <2>1. reply' \in [Callers -> [token : TokenOrNone, grant : TokenOrNone,
                                key : Keys]]
    BY <1>2 DEF TypeOK, TokenOrNone, Keys
  <2>2. pc' \in [Callers -> {"idle", "ensure", "snapshot", "sync",
                             "rejected", "renew", "ok", "err"} \cup RenewalSteps]
        /\ \A v \in Callers : pc'[v] = "sync" => pc[v] = "sync"
    BY <1>4 DEF TypeOK, RenewalSteps
  <2>3. live' \subseteq Tokens /\ grants' \subseteq Tokens
    BY <1>2, <1>3 DEF TypeOK
  <2> QED BY <1>4, <2>1, <2>2, <2>3 DEF TypeOK
<1>6. Credentials'
  BY <1>4 DEF TypeOK, Credentials, Paired
<1>7. Serialized'
  BY <1>4 DEF TypeOK, Serialized, RenewalsAreSerialized, RenewalSteps
<1>8. Replies'
  BY <1>2, <1>3, <1>4 DEF TypeOK, Replies
<1>9. Paired'
  BY <1>2, <1>3, <1>4 DEF TypeOK, Paired, TokenKeyPaired, Replies, NoReply
<1>10. Needed'
  BY <1>3, <1>4 DEF TypeOK, Needed, RenewalSteps
<1> QED BY <1>5, <1>6, <1>7, <1>8, <1>9, <1>10

(* A granted login brings a token nobody has, with the current version's   *)
(* key (password) or none yet (client credentials).                        *)
LEMMA LoginGrantedStep ==
    ASSUME IInv, NEW w \in Callers, LoginGranted(w)
    PROVE  IInv'
<1> USE DEF IInv
<1> DEFINE k == IF apiKeyLogin THEN 0 ELSE epoch
<1>1. PICK t \in Tokens :
        /\ Mint(t, TRUE)
        /\ \E g \in GrantWith(t) :
                /\ grants' = grants \cup ({g} \ {NoToken})
                /\ reply' = [reply EXCEPT ![w] =
                                [token |-> t, grant |-> g, key |-> k]]
  BY DEF LoginGranted
<1>2. PICK g \in {t, NoToken} :
                /\ grants' = grants \cup ({g} \ {NoToken})
                /\ reply' = [reply EXCEPT ![w] =
                                [token |-> t, grant |-> g, key |-> k]]
  BY <1>1 DEF GrantWith
<1>3. /\ t # accessToken /\ t # refreshToken
      /\ \A v \in Callers : /\ t # held[v].token
                            /\ t # reply[v].token /\ t # reply[v].grant
      /\ live' \subseteq live \cup {t}
  BY <1>1, MintedIsFresh
<1>4. PICK s \in {"profile", "publish"} :
        /\ s = "publish" => k = epoch
        /\ pc' = [pc EXCEPT ![w] = s]
  BY DEF LoginGranted, Goto
<1>5. /\ pc[w] = "login" /\ rejects' = FALSE
      /\ UNCHANGED <<calm, epoch, credentials, renewMu, held, retried,
                     master, client>>
  BY DEF LoginGranted
<1>6. k \in Keys
  BY DEF TypeOK, Keys
<1> HIDE DEF k
<1> USE DEF credentials, client
<1>7. TypeOK'
  BY <1>2, <1>3, <1>4, <1>5, <1>6 DEF TypeOK, TokenOrNone, RenewalSteps
<1>8. Credentials'
  BY <1>4, <1>5 DEF TypeOK, Credentials
<1>9. Serialized'
  BY <1>4, <1>5 DEF TypeOK, Serialized, RenewalsAreSerialized, RenewalSteps
<1>10. Replies'
  BY <1>2, <1>3, <1>4, <1>5 DEF TypeOK, Replies
<1>11. Paired'
  BY <1>2, <1>3, <1>4, <1>5 DEF TypeOK, Paired, TokenKeyPaired, Replies,
                                NoReply
<1>12. Needed'
  BY <1>3, <1>4, <1>5 DEF TypeOK, Needed, RenewalSteps
<1> QED BY <1>7, <1>8, <1>9, <1>10, <1>11, <1>12

(* Every step of a call preserves the invariant,                           *)
LEMMA CallStep ==
    ASSUME IInv, NEW w \in Callers, Call(w) \/ LockRenewMu(w) \/ Step(w)
    PROVE  IInv'
BY InitializeStep, EnsureValidTokenStep, LockRenewMuStep, SnapshotStep,
   SyncAnsweredStep, SyncUnauthorizedStep, SyncFailsStep, RetryRejectedStep,
   SyncReturnsStep, RefreshGrantedStep, RefreshFailsStep,
   RefreshAccessTokenStep, PreloginStep, LoginGrantedStep,
   fetchProfileKeyStep, AuthenticateStep, AuthenticateFailsStep
   DEF Call, Step

(* and so does every step.                                                 *)
LEMMA NextInv == IInv /\ [Next]_vars => IInv'
<1> SUFFICES ASSUME IInv, [Next]_vars PROVE IInv'
  OBVIOUS
<1>1. CASE UNCHANGED vars
  BY <1>1 DEF vars, server, credentials, client, calls, IInv, TypeOK, Credentials,
     Serialized, RenewalsAreSerialized, Replies, Paired, TokenKeyPaired,
     Needed
<1>2. CASE Environment
  BY <1>2, EnvironmentStep
<1>3. CASE \E w \in Callers : Call(w) \/ LockRenewMu(w) \/ Step(w)
  BY <1>3, CallStep
<1> QED BY <1>1, <1>2, <1>3 DEF Next

(* IInv holds in every reachable state: api_client.go keeps its            *)
(* credentials consistent under renewMu and mu.                            *)
THEOREM Invariant == Spec => []IInv
BY InitInv, NextInv, PTL DEF Spec

(* The access token is replaced by the holder of a response only.          *)
LEMMA OnlyRenewalsReplaceTheToken ==
    ASSUME IInv, [Next]_vars, accessToken' # accessToken
    PROVE  \E w \in Callers : pc[w] \in {"refreshed", "publish"}
<1>1. ~Environment
  BY DEF Environment, RevokeSession, RotateKey, TokenExpires, ClockPasses,
         CalmsDown, credentials, server
<1>2. PICK w \in Callers : Call(w) \/ LockRenewMu(w) \/ Step(w)
  BY <1>1 DEF Next, vars, credentials
<1>3. RefreshAccessToken(w) \/ Authenticate(w)
  BY <1>2 DEF Call, Initialize, EnsureValidToken, LockRenewMu, Step,
     Snapshot, SyncAnswered, SyncUnauthorized, SyncFails, RetryRejected,
     SyncReturns, RefreshGranted, RefreshFails, Prelogin, LoginGranted,
     fetchProfileKey, AuthenticateFails, credentials
<1> QED BY <1>3 DEF RefreshAccessToken, Authenticate

(* Every variable of APIClient holds a value of its kind, and no GET       *)
(* /api/sync goes out without a token or without a key.                    *)
THEOREM TypeCorrect == Spec => []TypeOK
BY Invariant, PTL DEF IInv

(* At most one goroutine at a time talks to the token endpoint: renewMu in *)
(* refreshOrReauthenticate, and Initialize before anything else runs.      *)
THEOREM OneRenewalAtATime == Spec => []RenewalsAreSerialized
BY Invariant, PTL DEF IInv, Serialized

(* A token the server takes and the key read with it are of one version,   *)
(* in APIClient and in every call of Sync, retries included.               *)
THEOREM PairedAlways == Spec => []TokenKeyPaired
BY Invariant, PTL DEF IInv, Paired

(* Once the client has started, no token is replaced that the server takes *)
(* and that is not about to expire: refreshOrReauthenticate compares the   *)
(* token a caller found dead with the current one.                         *)
THEOREM RenewedOnlyWhenNeeded == Spec => NoNeedlessRenewal
<1> DEFINE Justified ==
        started /\ accessToken' # accessToken
            => accessToken \notin live \/ expiring
<1>1. IInv /\ [Next]_vars => [Justified]_vars
  BY OnlyRenewalsReplaceTheToken DEF IInv, Needed, RenewalSteps
<1> QED BY <1>1, Invariant, PTL DEF Spec, NoNeedlessRenewal
=============================================================================
