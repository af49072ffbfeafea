------------------------ MODULE VaultDecryptionProofs ------------------------
(***************************************************************************)
(* Proofs about VaultDecryption: what becomes of an answer, for any keys,  *)
(* ciphers, fields, names and KDF parameters that a server may send.       *)
(***************************************************************************)
EXTENDS VaultDecryption, SequenceTheorems, WellFoundedInduction, TLAPS

-----------------------------------------------------------------------------
(***************************************************************************)
(* Least and greatest indices.                                             *)
(***************************************************************************)

(* A set of naturals has a smallest member, which Min gives.               *)
LEMMA MinIsLeast ==
    ASSUME NEW S \in SUBSET Nat, S # {}
    PROVE  Min(S) \in S /\ \A y \in S : Min(S) <= y
<1>1. PICK x \in S : \A y \in S : ~(<<y, x>> \in OpToRel(<, Nat))
  BY NatLessThanWellFounded, WFMin, Zenon
<1>2. \A y \in S : ~(y < x)
  BY <1>1 DEF OpToRel
<1>3. \E least \in S : \A y \in S : least =< y
  BY <1>2
<1> QED BY <1>3, Zenon DEF Min

(* A set of indices has a greatest member, which Max gives.                *)
LEMMA MaxIsGreatest ==
    ASSUME NEW n \in Nat, NEW S \in SUBSET (1..n), S # {}
    PROVE  Max(S) \in S /\ \A y \in S : y <= Max(S)
<1> DEFINE mirrored == {n - x : x \in S}
<1>1. mirrored \in SUBSET Nat /\ mirrored # {}
  <2>1. \A x \in S : n - x \in Nat
    OBVIOUS
  <2> QED BY <2>1
<1>2. PICK m \in mirrored : \A y \in mirrored : m <= y
  BY <1>1, MinIsLeast
<1>3. PICK x \in S : m = n - x
  BY <1>2
<1>4. \A y \in S : n - y \in mirrored
  OBVIOUS
<1>5. \A y \in S : x >= y
  <2> SUFFICES ASSUME NEW y \in S PROVE x >= y
    OBVIOUS
  <2>1. n - x <= n - y
    BY <1>2, <1>3, <1>4
  <2>2. x \in 1..n /\ y \in 1..n
    BY <1>3
  <2> QED BY <2>1, <2>2
<1>6. \E greatest \in S : \A y \in S : greatest >= y
  BY <1>5
<1>7. Max(S) \in S /\ \A y \in S : Max(S) >= y
  BY <1>6, Zenon DEF Max
<1> QED BY <1>7

-----------------------------------------------------------------------------
(***************************************************************************)
(* Decryption.                                                             *)
(***************************************************************************)

(* Under a key with a MAC key, what decrypts is genuine.                   *)
LEMMA DecryptsGenuine ==
    ASSUME NEW s, NEW k, CarriesMac(k)
    PROVE  Decrypts(s, k) <=> Genuine(s, k)
BY DEF Decrypts, Genuine

(* A string that does not fail decrypts to its text.                       *)
LEMMA NoFailure ==
    ASSUME NEW s, NEW k
    PROVE  /\ ~Fails(s, k) => DecryptStr(s, k) = s.text
           /\ DecryptStr(s, k) # "" => Decrypts(s, k) /\ DecryptStr(s, k) = s.text
<1>1. CASE s = Empty
  <2>1. DecryptStr(s, k) = "" /\ s.text = ""
    BY <1>1 DEF DecryptStr, Empty
  <2> QED BY <2>1
<1>2. CASE s # Empty
  BY <1>2 DEF Fails, DecryptStr
<1> QED BY <1>1, <1>2

-----------------------------------------------------------------------------
(***************************************************************************)
(* The inductive invariant.                                                *)
(***************************************************************************)

Types ==
    /\ pc \in {"idle", "login", "ciphers", "refused", "returned"}
    /\ DOMAIN orgKeys = Orgs
    /\ taken \in Seq(CipherForms) /\ labels \in CipherString

(* No key in use is the bare master key.                                   *)
KeysCarryMacs == CarriesMac(key) /\ \A o \in Orgs : CarriesMac(orgKeys[o])

(* Ciphers are taken in between an answer and the end of its sync only.    *)
NothingBetweenSyncs ==
    pc \in {"idle", "login"} => taken = <<>> /\ names = NoNames

(* The ciphers taken are divided into the trash, the items and the failure *)
(* list, by the keys of this answer.                                       *)
IsSealed(c) == ~c.trashed /\ (KeyOf(c) = "none" \/ decryptCipherFails(c))
IsOpen(c) == ~c.trashed /\ ~IsSealed(c)
ItemAt(n) == [at |-> n, content |-> Content(taken[n])]

Divided ==
    /\ \A m, n \in DOMAIN taken : taken[m].id = taken[n].id => m = n
    /\ items = {ItemAt(n) : n \in {m \in DOMAIN taken : IsOpen(taken[m])}}
    /\ failed = {taken[n].id : n \in {m \in DOMAIN taken : IsSealed(taken[m])}}

Decided ==
    /\ pc = "refused" => Refused
    /\ pc = "returned" => ~Refused

NamesFromAnswer == names = NoNames \/ \E o \in Orgs : names = NamesOf(labels, o)

KdfAccepted ==
    kdf = NoKdf \/ \E p \in KdfParams : AcceptsKdf(p) /\ kdf = Derivation(p)

IInv ==
    /\ Types /\ KeysCarryMacs /\ NothingBetweenSyncs /\ Divided /\ Decided
    /\ NamesFromAnswer /\ KdfAccepted

(* Before the first login there is nothing.                                *)
LEMMA InitInv == Init => IInv
<1> SUFFICES ASSUME Init PROVE IInv
  OBVIOUS
<1> USE DEF Init
<1>1. Types
  <2>1. <<>> \in Seq(CipherForms)
    BY EmptySeq
  <2> QED BY <2>1 DEF Types, CipherString
<1>2. KeysCarryMacs /\ NothingBetweenSyncs /\ Decided /\ NamesFromAnswer /\ KdfAccepted
  BY DEF KeysCarryMacs, CarriesMac, NothingBetweenSyncs, Decided, NamesFromAnswer,
         KdfAccepted
<1>3. Divided
  BY DEF Divided
<1> QED BY <1>1, <1>2, <1>3 DEF IInv

(* A cipher means the same as long as the keys stay.                       *)
LEMMA SameKeys ==
    ASSUME UNCHANGED <<key, orgKeys>>
    PROVE  /\ \A c : IsSealed(c)' = IsSealed(c) /\ IsOpen(c)' = IsOpen(c)
           /\ \A c : Content(c)' = Content(c)
<1>1. \A c : KeyOf(c)' = KeyOf(c)
  BY DEF KeyOf
<1>2. ASSUME NEW c PROVE decryptCipherFails(c)' = decryptCipherFails(c)
  BY <1>1 DEF decryptCipherFails, Fails, Decrypts
<1>3. \A c : IsSealed(c)' = IsSealed(c)
  BY <1>1, <1>2 DEF IsSealed
<1>4. \A c : IsOpen(c)' = IsOpen(c)
  BY <1>3 DEF IsOpen
<1>5. ASSUME NEW c PROVE Content(c)' = Content(c)
  <2>1. KeyOf(c)' = KeyOf(c)
    BY <1>1
  <2> QED BY <2>1 DEF Content
<1> QED BY <1>3, <1>4, <1>5

(* The part of the invariant about an answer's ciphers, when the answer,   *)
(* the ciphers and their keys stay.                                        *)
LEMMA SameAnswer ==
    ASSUME Divided, UNCHANGED <<key, orgKeys, answerVars>>
    PROVE  Divided'
<1> USE DEF answerVars
<1>1. \A n : ItemAt(n)' = ItemAt(n)
  BY SameKeys DEF ItemAt
<1>2. /\ {m \in DOMAIN taken : IsOpen(taken[m])}'
            = {m \in DOMAIN taken : IsOpen(taken[m])}
      /\ {m \in DOMAIN taken : IsSealed(taken[m])}'
            = {m \in DOMAIN taken : IsSealed(taken[m])}
  BY SameKeys
<1>3. items' = {ItemAt(n)' : n \in {m \in DOMAIN taken : IsOpen(taken[m])}'}
  BY <1>1, <1>2 DEF Divided
<1>4. failed' = {taken[n].id : n \in {m \in DOMAIN taken : IsSealed(taken[m])}'}
  BY <1>2 DEF Divided
<1> QED BY <1>3, <1>4 DEF Divided

(* A step that changes neither keys nor what was taken.                    *)
LEMMA KeysAndAnswerStay ==
    ASSUME IInv, UNCHANGED <<key, orgKeys, answerVars>>,
           pc' \in {"idle", "login", "ciphers", "refused", "returned"},
           pc' = pc \/ pc' \in {"login", "refused", "returned"},
           pc' = "login" => pc \in {"idle", "login"},
           labels' \in CipherString, Decided', NamesFromAnswer', KdfAccepted',
           pc' \in {"idle", "login"} => names' = names
    PROVE  IInv'
<1> USE DEF IInv, answerVars
<1>1. Types'
  BY DEF Types
<1>2. KeysCarryMacs'
  BY DEF KeysCarryMacs
<1>3. NothingBetweenSyncs'
  BY DEF NothingBetweenSyncs
<1>4. Divided'
  BY SameAnswer
<1> QED BY <1>1, <1>2, <1>3, <1>4

(* The names shown stay those of the answer.                               *)
LEMMA SameNames ==
    ASSUME NamesFromAnswer, UNCHANGED <<key, orgKeys, nameVars>>
    PROVE  NamesFromAnswer'
BY DEF NamesFromAnswer, NamesOf, nameVars

(* The KDF is asked for by a login alone.                                  *)
LEMMA DeriveInv == ASSUME IInv, NEW p \in KdfParams, Derive(p) PROVE IInv'
<1> USE DEF Derive
<1>1. KdfAccepted'
  <2>1. kdf' = Derivation(p) /\ AcceptsKdf(p)
    OBVIOUS
  <2>2. Derivation(p)' = Derivation(p) /\ AcceptsKdf(p)' = AcceptsKdf(p)
    BY DEF Derivation, AcceptsKdf, Within
  <2> QED BY <2>1, <2>2 DEF KdfAccepted
<1>2. Decided' /\ NamesFromAnswer' /\ labels' \in CipherString
  BY SameNames DEF IInv, Decided, Types, nameVars
<1> QED BY <1>1, <1>2, KeysAndAnswerStay DEF nameVars

(* A login changes the key while nothing of an answer is kept.             *)
LEMMA LoginInv == ASSUME IInv, NEW s \in UserKeys, Login(s) PROVE IInv'
<1> USE DEF Login, answerVars, nameVars
<1>1. taken = <<>> /\ names = NoNames
  BY DEF IInv, NothingBetweenSyncs
<1>2. items = {} /\ failed = {}
  BY <1>1 DEF IInv, Divided
<1>3. Types' /\ NothingBetweenSyncs' /\ Decided' /\ NamesFromAnswer' /\ KdfAccepted'
  BY <1>1 DEF IInv, Types, NothingBetweenSyncs, Decided, NamesFromAnswer, KdfAccepted
<1>4. Divided'
  BY <1>1, <1>2 DEF Divided
<1>5. KeysCarryMacs'
  BY DEF IInv, KeysCarryMacs, CarriesMac, DecryptSymmetricKey, IsKey
<1> QED BY <1>3, <1>4, <1>5 DEF IInv

(* An answer brings the keys of the organizations.                         *)
LEMMA ReceiveInv == ASSUME IInv, NEW a \in Answers, Receive(a) PROVE IInv'
<1> USE DEF Receive, answerVars, nameVars
<1>1. taken = <<>> /\ names = NoNames
  BY DEF IInv, NothingBetweenSyncs
<1>2. items = {} /\ failed = {}
  BY <1>1 DEF IInv, Divided
<1>3. Types' /\ NothingBetweenSyncs' /\ Decided' /\ NamesFromAnswer' /\ KdfAccepted'
  BY <1>1 DEF IInv, Types, NothingBetweenSyncs, Decided, NamesFromAnswer, KdfAccepted,
              OrgKeysOf
<1>4. Divided'
  BY <1>1, <1>2 DEF Divided
<1>5. KeysCarryMacs'
  BY DEF IInv, KeysCarryMacs, CarriesMac, OrgKeysOf, IsKey
<1> QED BY <1>3, <1>4, <1>5 DEF IInv

(* A cipher is taken, and goes where it belongs.                           *)
LEMMA TakeInv ==
    ASSUME IInv, NEW c \in CipherForms,
           \A n \in DOMAIN taken : taken[n].id # c.id, Take(c)
    PROVE  IInv'
<1>0. PICK last : last = Len(taken) + 1
  OBVIOUS
<1>1. /\ UNCHANGED <<kdf, key, pc, orgKeys, nameVars>>
      /\ pc = "ciphers" /\ taken' = Append(taken, c)
  BY DEF Take
<1>2. /\ taken' \in Seq(CipherForms) /\ DOMAIN taken' = DOMAIN taken \cup {last}
      /\ last \notin DOMAIN taken /\ taken'[last] = c
      /\ \A n \in DOMAIN taken : taken'[n] = taken[n]
  BY <1>0, <1>1 DEF IInv, Types
<1>3. /\ \A d : IsSealed(d)' = IsSealed(d) /\ IsOpen(d)' = IsOpen(d)
      /\ \A d : Content(d)' = Content(d)
  BY <1>1, SameKeys
<1> DEFINE open == {m \in DOMAIN taken : IsOpen(taken[m])}
           sealed == {m \in DOMAIN taken : IsSealed(taken[m])}
<1>4. /\ open' = open \cup (IF IsOpen(c) THEN {last} ELSE {})
      /\ sealed' = sealed \cup (IF IsSealed(c) THEN {last} ELSE {})
  BY <1>2, <1>3
<1>5. /\ \A n \in open : ItemAt(n)' = ItemAt(n)
      /\ ItemAt(last)' = [at |-> last, content |-> Content(c)]
  BY <1>2, <1>3 DEF ItemAt
<1>6. /\ items' = items \cup (IF IsOpen(c)
                             THEN {[at |-> last, content |-> Content(c)]} ELSE {})
      /\ failed' = failed \cup (IF IsSealed(c) THEN {c.id} ELSE {})
  BY <1>0 DEF Take, IsOpen, IsSealed
<1>7. /\ items = {ItemAt(n) : n \in open}
      /\ failed = {taken[n].id : n \in sealed}
  BY DEF IInv, Divided
<1>8. open \subseteq DOMAIN taken /\ sealed \subseteq DOMAIN taken
  OBVIOUS
<1> HIDE DEF open, sealed
<1>9. items' = {ItemAt(n)' : n \in open'}
  BY <1>4, <1>5, <1>6, <1>7
<1>10. failed' = {taken'[n].id : n \in sealed'}
  BY <1>2, <1>4, <1>6, <1>7, <1>8
<1>11. Divided'
  BY <1>2, <1>9, <1>10 DEF IInv, Divided, open, sealed
<1>12. /\ Types' /\ KeysCarryMacs' /\ NothingBetweenSyncs' /\ Decided'
       /\ NamesFromAnswer' /\ KdfAccepted'
  BY <1>1, <1>2, SameNames DEF IInv, Types, KeysCarryMacs, NothingBetweenSyncs, Decided,
       KdfAccepted, nameVars
<1> QED BY <1>11, <1>12 DEF IInv

(* The end of a sync, one way or the other.                                *)
LEMMA RefuseInv == ASSUME IInv, Refuse PROVE IInv'
<1> USE DEF Refuse
<1>1. Decided'
  BY DEF Decided, Refused, answerVars
<1>2. NamesFromAnswer' /\ KdfAccepted' /\ labels' \in CipherString
  BY SameNames DEF IInv, KdfAccepted, Types, nameVars
<1> QED BY <1>1, <1>2, KeysAndAnswerStay

(* The names shown are made of this answer's label and keys.               *)
LEMMA ReturnInv ==
    ASSUME IInv, NEW s \in LabelForms, NEW o \in Orgs, Return(s, o)
    PROVE  IInv'
<1> USE DEF Return
<1>1. Decided'
  BY DEF Decided, Refused, answerVars
<1>2. names' = NamesOf(labels, o)'
  BY DEF NamesOf
<1>3. NamesFromAnswer' /\ KdfAccepted' /\ labels' \in CipherString
  BY <1>2, FormAssumption DEF IInv, KdfAccepted, NamesFromAnswer
<1> QED BY <1>1, <1>3, KeysAndAnswerStay

(* The next sync starts with nothing.                                      *)
LEMMA NextSyncInv == ASSUME IInv, NextSync PROVE IInv'
<1> USE DEF NextSync
<1>1. taken' = <<>> /\ <<>> \in Seq(CipherForms)
  BY EmptySeq
<1>2. Types' /\ NothingBetweenSyncs' /\ Decided' /\ NamesFromAnswer' /\ KdfAccepted'
  BY <1>1 DEF IInv, Types, CipherString, NothingBetweenSyncs, Decided,
              NamesFromAnswer, KdfAccepted
<1>3. Divided'
  BY <1>1 DEF Divided
<1>4. KeysCarryMacs'
  BY DEF IInv, KeysCarryMacs, CarriesMac
<1> QED BY <1>2, <1>3, <1>4 DEF IInv

(* Nothing happens.                                                        *)
LEMMA StutterInv == ASSUME IInv, UNCHANGED vars PROVE IInv'
<1>0. UNCHANGED <<kdf, key, pc, orgKeys, answerVars, nameVars>>
  BY DEF vars
<1>1. Decided' /\ KdfAccepted' /\ labels' \in CipherString
  BY <1>0 DEF IInv, Decided, Refused, answerVars, nameVars, KdfAccepted, Types
<1>2. NamesFromAnswer'
  BY <1>0, SameNames DEF IInv
<1>3. pc \in {"idle", "login", "ciphers", "refused", "returned"}
  BY DEF IInv, Types
<1>4. names' = names /\ pc' = pc /\ UNCHANGED <<key, orgKeys, answerVars>>
  BY <1>0 DEF nameVars
<1> QED BY <1>1, <1>2, <1>3, <1>4, KeysAndAnswerStay

(* IInv is inductive.                                                      *)
LEMMA Invariance == Spec => []IInv
<1>1. IInv /\ [Next]_vars => IInv'
  <2> SUFFICES ASSUME IInv, [Next]_vars PROVE IInv'
    OBVIOUS
  <2>1. CASE \E p \in KdfParams : Derive(p)
    BY <2>1, DeriveInv
  <2>2. CASE \E s \in UserKeys : Login(s)
    BY <2>2, LoginInv
  <2>3. CASE \E a \in Answers : Receive(a)
    BY <2>3, ReceiveInv
  <2>4. CASE \E c \in CipherForms :
               (\A n \in DOMAIN taken : taken[n].id # c.id) /\ Take(c)
    BY <2>4, TakeInv
  <2>5. CASE Refuse \/ NextSync
    BY <2>5, RefuseInv, NextSyncInv
  <2>6. CASE \E s \in LabelForms, o \in Orgs : Return(s, o)
    BY <2>6, ReturnInv
  <2>7. CASE UNCHANGED vars
    BY <2>7, StutterInv
  <2> QED BY <2>1, <2>2, <2>3, <2>4, <2>5, <2>6, <2>7 DEF Next
<1> QED BY <1>1, InitInv, PTL DEF Spec

-----------------------------------------------------------------------------
(***************************************************************************)
(* The theorems.                                                           *)
(***************************************************************************)

(* Whatever prelogin answers, Argon2id runs with the numbers sent, or with *)
(* the defaults of those that were not: the conversions cut nothing.       *)
THEOREM KdfAlwaysAsAsked == Spec => []KdfAsAsked
<1>1. ASSUME NEW p \in KdfParams, AcceptsKdf(p), kdf = Derivation(p), p.type = 1
      PROVE  KdfAsAsked
  <2>1. /\ p.iterations \in 1..100
        /\ p.memory = NotSent \/ p.memory \in 16..1024
        /\ p.parallelism = NotSent \/ p.parallelism \in 1..64
    BY <1>1 DEF AcceptsKdf, Within
  <2>2. /\ kdf.asked = p
        /\ kdf.memory = IF p.memory = NotSent THEN 64 ELSE p.memory % 4194304
        /\ kdf.threads = IF p.parallelism = NotSent THEN 4 ELSE p.parallelism % 256
    BY <1>1 DEF Derivation
  <2>3. /\ \A m \in 16..1024 : m % 4194304 = m
        /\ \A n \in 1..64 : n % 256 = n /\ n > 0
    OBVIOUS
  <2> QED BY <2>1, <2>2, <2>3 DEF KdfAsAsked
<1>2. IInv => KdfAsAsked
  <2> SUFFICES ASSUME IInv, kdf # NoKdf, kdf.asked.type = 1 PROVE KdfAsAsked
    BY DEF KdfAsAsked
  <2>1. PICK p \in KdfParams : AcceptsKdf(p) /\ kdf = Derivation(p)
    BY DEF IInv, KdfAccepted
  <2>2. kdf.asked = p
    BY <2>1 DEF Derivation
  <2> QED BY <1>1, <2>1, <2>2
<1> QED BY <1>2, Invariance, PTL

(* Of a cipher, the code's verdict is whether all that can be served of it *)
(* is genuine.                                                             *)
LEMMA VerdictIsState ==
    ASSUME IInv, NEW c \in CipherForms
    PROVE  /\ IsOpen(c) <=> StateOf(c) = "open"
           /\ IsSealed(c) <=> StateOf(c) = "sealed"
<1>1. c.org = "none" \/ c.org \in Orgs
  BY FormAssumption DEF CipherForm, Orgs
<1>2. CarriesMac(KeyOf(c))
  BY <1>1 DEF IInv, KeysCarryMacs, KeyOf
<1>3. \A s : Fails(s, KeyOf(c)) <=> ~(s = Empty \/ Genuine(s, KeyOf(c)))
  BY <1>2, DecryptsGenuine DEF Fails
<1>4. /\ ServableStrings(c) = {c.name, c.password, c.notes}
            \cup {f.value : f \in {g \in ToSet(c.fields) : ~g.linked}}
      /\ \A f \in ToSet(c.fields) : ~f.linked => f.value \in ServableStrings(c)
  BY DEF ServableStrings
<1>5. decryptCipherFails(c) <=> \E s \in ServableStrings(c) : Fails(s, KeyOf(c))
  BY <1>4 DEF decryptCipherFails
<1>6. Readable(c) <=> KeyOf(c) # "none" /\ ~decryptCipherFails(c)
  BY <1>3, <1>5 DEF Readable
<1>7. c.trashed \in BOOLEAN
  BY FormAssumption DEF CipherForm
<1> QED BY <1>6, <1>7 DEF StateOf, IsOpen, IsSealed

(* An answer says of an id what the one cipher with it is, if there is one.*)
LEMMA SentStates ==
    ASSUME IInv, NEW id \in Ciphers
    PROVE  /\ \A n \in DOMAIN taken :
                 taken[n].id = id => Sent[id].state = StateOf(taken[n])
           /\ (\A n \in DOMAIN taken : taken[n].id # id)
                 => Sent[id].state = "absent"
<1> DEFINE found == {c \in ToSet(taken) : c.id = id}
<1>1. Sent[id].state = IF found = {} THEN "absent"
                       ELSE StateOf(CHOOSE c \in found : TRUE)
  BY DEF Sent
<1>2. ASSUME NEW n \in DOMAIN taken, taken[n].id = id
      PROVE  found = {taken[n]}
  BY <1>2 DEF IInv, Divided, ToSet
<1>3. ASSUME \A n \in DOMAIN taken : taken[n].id # id PROVE found = {}
  BY <1>3 DEF ToSet
<1> HIDE DEF found
<1>4. ASSUME NEW n \in DOMAIN taken, taken[n].id = id
      PROVE  Sent[id].state = StateOf(taken[n])
  <2>1. (CHOOSE c \in found : TRUE) = taken[n]
    BY <1>2, <1>4
  <2> QED BY <1>1, <1>2, <1>4, <2>1
<1> QED BY <1>1, <1>3, <1>4

(* Nothing of an answer goes missing: when a sync ends, the items are the  *)
(* ciphers that VaultData calls open, and the failure list those it calls  *)
(* sealed.                                                                 *)
THEOREM AnswersAreAccountedFor == Spec => []AccountedFor
<1>1. ASSUME IInv
      PROVE  /\ {taken[item.at].id : item \in items} = Decrypted(Sent)
             /\ failed = FailedCiphers(Sent)
  <2>1. \A n \in DOMAIN taken : taken[n] \in CipherForms /\ taken[n].id \in Ciphers
    BY <1>1, FormAssumption DEF IInv, Types, CipherForm
  <2>2. \A n \in DOMAIN taken :
            /\ IsOpen(taken[n]) <=> Sent[taken[n].id].state = "open"
            /\ IsSealed(taken[n]) <=> Sent[taken[n].id].state = "sealed"
    BY <1>1, <2>1, VerdictIsState, SentStates
  <2>3. \A id \in Ciphers :
            Sent[id].state # "absent" => \E n \in DOMAIN taken : taken[n].id = id
    BY <1>1, SentStates
  <2>4. {taken[item.at].id : item \in items}
           = {taken[n].id : n \in {m \in DOMAIN taken : IsOpen(taken[m])}}
    <3>1. items = {ItemAt(n) : n \in {m \in DOMAIN taken : IsOpen(taken[m])}}
      BY <1>1 DEF IInv, Divided
    <3>2. \A n : ItemAt(n).at = n
      BY DEF ItemAt
    <3> QED BY <3>1, <3>2
  <2>5. failed = {taken[n].id : n \in {m \in DOMAIN taken : IsSealed(taken[m])}}
    BY <1>1 DEF IInv, Divided
  <2>6. /\ \A id \in Decrypted(Sent) : \E n \in DOMAIN taken :
               taken[n].id = id /\ IsOpen(taken[n])
        /\ \A id \in FailedCiphers(Sent) : \E n \in DOMAIN taken :
               taken[n].id = id /\ IsSealed(taken[n])
    BY <2>2, <2>3 DEF Decrypted, FailedCiphers
  <2>7. \A n \in DOMAIN taken :
            /\ IsOpen(taken[n]) => taken[n].id \in Decrypted(Sent)
            /\ IsSealed(taken[n]) => taken[n].id \in FailedCiphers(Sent)
    BY <2>1, <2>2 DEF Decrypted, FailedCiphers
  <2> QED BY <2>4, <2>5, <2>6, <2>7
<1>2. IInv => AccountedFor
  <2> SUFFICES ASSUME IInv, pc \in {"refused", "returned"} PROVE AccountedFor
    BY DEF AccountedFor
  <2>1. items = {} <=> {taken[item.at].id : item \in items} = {}
    OBVIOUS
  <2>2. pc = "refused" <=> items = {} /\ failed # {}
    BY DEF IInv, Decided, Refused
  <2>3. pc = "refused" <=> NothingDecrypts(Sent)
    BY <1>1, <2>1, <2>2 DEF NothingDecrypts
  <2> QED BY <1>1, <2>3 DEF AccountedFor
<1> QED BY <1>2, Invariance, PTL

(* An entry of the map of fields comes from the field at n.                *)
IsFieldOf(name, c, text) ==
    \E n \in DOMAIN c.fields :
       /\ ~c.fields[n].linked
       /\ name = text[c.fields[n].name] /\ name # ""
       /\ Fields(c, text)[name] = text[c.fields[n].value]

(* Each entry of a map of fields is from a field of the cipher that has a  *)
(* name and is not linked.                                                 *)
LEMMA FieldsAreFields ==
    ASSUME NEW c, c.fields \in Seq(Field), NEW text,
           NEW name \in DOMAIN Fields(c, text)
    PROVE  IsFieldOf(name, c, text)
<1> USE DEF IsFieldOf
<1> DEFINE NameAt(n) == text[c.fields[n].name]
           held == {n \in DOMAIN c.fields : ~c.fields[n].linked /\ NameAt(n) # ""}
           same == {n \in held : NameAt(n) = name}
<1>1. Fields(c, text) = [x \in {NameAt(n) : n \in held} |->
          text[c.fields[Max({n \in held : NameAt(n) = x})].value]]
  BY DEF Fields
<1>2. name \in {NameAt(n) : n \in held}
  BY <1>1
<1>3. same # {} /\ same \in SUBSET (1..Len(c.fields)) /\ Len(c.fields) \in Nat
  <2>1. DOMAIN c.fields = 1..Len(c.fields) /\ Len(c.fields) \in Nat
    BY LenProperties
  <2> QED BY <1>2, <2>1
<1>4. Max(same) \in same
  BY <1>3, MaxIsGreatest
<1>5. Fields(c, text)[name] = text[c.fields[Max(same)].value]
  BY <1>1, <1>2
<1> QED BY <1>4, <1>5

(* A name that is shown is the text of what was sent, in the clear or      *)
(* decrypted by one of the keys.                                           *)
LEMMA LabelOrigin ==
    ASSUME NEW s \in CipherString, NEW keys, DOMAIN keys \in SUBSET Nat,
           decryptVaultLabel(s, keys) # ""
    PROVE  /\ decryptVaultLabel(s, keys) = s.text
           /\ \/ s.type = "plain"
              \/ \E n \in DOMAIN keys : Decrypts(s, keys[n])
<1> DEFINE open == {n \in DOMAIN keys : /\ keys[n] # "none"
                                       /\ DecryptStr(s, keys[n]) # ""}
<1>1. decryptVaultLabel(s, keys) =
         IF open # {} THEN DecryptStr(s, keys[Min(open)])
         ELSE IF ParseCipherString(s) THEN "" ELSE s.text
  BY DEF decryptVaultLabel
<1>2. CASE open # {}
  <2>1. Min(open) \in open
    BY <1>2, MinIsLeast
  <2>2. /\ Decrypts(s, keys[Min(open)])
        /\ DecryptStr(s, keys[Min(open)]) = s.text
    BY <2>1, NoFailure
  <2> QED BY <1>1, <1>2, <2>1, <2>2
<1>3. CASE open = {}
  <2>1. ~ParseCipherString(s) /\ decryptVaultLabel(s, keys) = s.text
    BY <1>1, <1>3
  <2>2. s # Empty
    <3>1. Empty.text = ""
      BY DEF Empty
    <3> QED BY <2>1, <3>1
  <2>3. s.type = "plain"
    BY <2>1, <2>2 DEF ParseCipherString, CipherString
  <2> QED BY <2>1, <2>3
<1> QED BY <1>2, <1>3

(* A cipher decrypted under a key with a MAC key is genuine in all parts.  *)
LEMMA ContentIsGenuine ==
    ASSUME NEW c \in CipherForm, NEW k, CarriesMac(k)
    PROVE  Authenticated(c, k, ItemWith(c, [s \in Strings(c) |-> DecryptStr(s, k)]))
<1>0. PICK text : text = [s \in Strings(c) |-> DecryptStr(s, k)]
  OBVIOUS
<1>1. \A s \in Strings(c) : IsTextOf(text[s], s, k)
  BY <1>0, NoFailure, DecryptsGenuine DEF IsTextOf
<1>2. PICK content : content = ItemWith(c, text)
  OBVIOUS
<1>3. /\ content.password = text[c.password] /\ content.notes = text[c.notes]
      /\ content.fields = Fields(c, text)
  BY <1>2 DEF ItemWith
<1>4. c.password \in Strings(c) /\ c.notes \in Strings(c)
  BY DEF Strings
<1>5. ASSUME NEW m \in DOMAIN c.fields
      PROVE  /\ c.fields[m] \in ToSet(c.fields)
             /\ c.fields[m].name \in Strings(c) /\ c.fields[m].value \in Strings(c)
  BY DEF ToSet, Strings
<1>6. c.fields \in Seq(Field)
  BY DEF CipherForm
<1>7. ASSUME NEW name \in DOMAIN content.fields
      PROVE  \E f \in ToSet(c.fields) :
                /\ ~f.linked /\ IsTextOf(name, f.name, k)
                /\ IsTextOf(content.fields[name], f.value, k)
  <2>1. name \in DOMAIN Fields(c, text)
    BY <1>3, <1>7, Zenon
  <2>2. PICK m \in DOMAIN c.fields :
           /\ ~c.fields[m].linked
           /\ name = text[c.fields[m].name] /\ name # ""
           /\ Fields(c, text)[name] = text[c.fields[m].value]
    <3>1. IsFieldOf(name, c, text)
      BY <1>6, <2>1, FieldsAreFields
    <3> QED BY <3>1, Zenon DEF IsFieldOf
  <2>3. PICK f \in ToSet(c.fields) : f = c.fields[m]
    BY <1>5
  <2>4. IsTextOf(text[f.name], f.name, k) /\ IsTextOf(text[f.value], f.value, k)
    BY <1>1, <1>5, <2>3
  <2>5. name = text[f.name] /\ content.fields[name] = text[f.value] /\ ~f.linked
    BY <1>3, <2>2, <2>3, Zenon
  <2> QED BY <2>4, <2>5, Zenon
<1>8. IsTextOf(content.password, c.password, k) /\ IsTextOf(content.notes, c.notes, k)
  BY <1>1, <1>3, <1>4
<1>9. Authenticated(c, k, content)
  BY <1>7, <1>8 DEF Authenticated
<1> QED BY <1>0, <1>2, <1>9, Zenon

(* Nothing is cached or shown that was not authenticated, except names     *)
(* sent in the clear.                                                      *)
THEOREM OnlyAuthenticated == Spec => []AuthenticatedOnly
<1>1. ASSUME IInv, NEW n \in DOMAIN taken
      PROVE  Authenticated(taken[n], KeyOf(taken[n]), Content(taken[n]))
  <2>1. PICK c : c = taken[n]
    OBVIOUS
  <2>2. c \in CipherForm
    BY <1>1, <2>1, FormAssumption DEF IInv, Types
  <2>3. CarriesMac(KeyOf(c))
    BY <1>1, <2>2 DEF IInv, KeysCarryMacs, KeyOf, CipherForm, Orgs
  <2>4. Authenticated(c, KeyOf(c), Content(c))
    BY <2>2, <2>3, ContentIsGenuine DEF Content
  <2> QED BY <2>1, <2>4
<1>2. ASSUME IInv, NEW kind \in DOMAIN names, names[kind] # ""
      PROVE  /\ labels.text = names[kind]
             /\ \/ labels.type = "plain"
                \/ \E k \in {key} \cup ToSet(orgKeys) : Genuine(labels, k)
  <2>1. PICK o \in Orgs : names = NamesOf(labels, o)
    <3>1. \A k \in DOMAIN NoNames : NoNames[k] = ""
      <4>1. /\ NoNames.org = "" /\ NoNames.folder = "" /\ NoNames.collection = ""
            /\ DOMAIN NoNames = {"org", "folder", "collection"}
        BY DEF NoNames
      <4> QED BY <4>1
    <3>2. names # NoNames
      BY <1>2, <3>1
    <3> QED BY <1>2, <3>2 DEF IInv, NamesFromAnswer
  <2>2. \E keys \in {<<key, orgKeys[o]>>, <<key>>, <<orgKeys[o]>>} :
           names[kind] = decryptVaultLabel(labels, keys)
    <3>1. kind \in {"org", "folder", "collection"}
      BY <2>1 DEF NamesOf
    <3>2. /\ names["org"] = decryptVaultLabel(labels, <<key, orgKeys[o]>>)
          /\ names["folder"] = decryptVaultLabel(labels, <<key>>)
          /\ names["collection"] # "" =>
                names["collection"] = decryptVaultLabel(labels, <<orgKeys[o]>>)
      BY <2>1 DEF NamesOf
    <3> QED BY <1>2, <3>1, <3>2
  <2>3. PICK keys \in {<<key, orgKeys[o]>>, <<key>>, <<orgKeys[o]>>} :
           names[kind] = decryptVaultLabel(labels, keys)
    BY <2>2
  <2>4. /\ DOMAIN keys \in SUBSET Nat
        /\ \A m \in DOMAIN keys : keys[m] \in {key, orgKeys[o]}
    OBVIOUS
  <2>5. orgKeys[o] \in ToSet(orgKeys) /\ CarriesMac(orgKeys[o]) /\ CarriesMac(key)
    BY <1>2 DEF IInv, Types, KeysCarryMacs, ToSet
  <2>6. labels \in CipherString
    BY <1>2 DEF IInv, Types
  <2>7. /\ labels.text = names[kind]
        /\ \/ labels.type = "plain"
           \/ \E m \in DOMAIN keys : Decrypts(labels, keys[m])
    BY <1>2, <2>3, <2>4, <2>6, LabelOrigin
  <2> QED BY <2>4, <2>5, <2>7, DecryptsGenuine
<1>3. IInv => AuthenticatedOnly
  <2> SUFFICES ASSUME IInv PROVE AuthenticatedOnly
    OBVIOUS
  <2>1. \A item \in items : \E n \in DOMAIN taken : item = ItemAt(n)
    BY DEF IInv, Divided
  <2>2. ASSUME NEW item \in items
        PROVE  Authenticated(taken[item.at], KeyOf(taken[item.at]), item.content)
    <3>1. PICK n \in DOMAIN taken : item = ItemAt(n)
      BY <2>1
    <3>2. item.at = n /\ item.content = Content(taken[n])
      BY <3>1 DEF ItemAt
    <3>3. Authenticated(taken[n], KeyOf(taken[n]), Content(taken[n]))
      BY <1>1
    <3> QED BY <3>2, <3>3
  <2> QED BY <1>2, <2>2 DEF AuthenticatedOnly
<1> QED BY <1>3, Invariance, PTL

-----------------------------------------------------------------------------
(***************************************************************************)
(* What is served is what was stored.                                      *)
(***************************************************************************)

(* The map of fields is made of the texts of the fields that are not       *)
(* linked, and of nothing else.                                            *)
LEMMA FieldsAgree ==
    ASSUME NEW c, c.fields \in Seq(Field), NEW text, NEW other,
           \A n \in DOMAIN c.fields : ~c.fields[n].linked =>
               /\ text[c.fields[n].name] = other[c.fields[n].name]
               /\ text[c.fields[n].value] = other[c.fields[n].value]
    PROVE  Fields(c, text) = Fields(c, other)
<1> DEFINE Held(t) ==
              {n \in DOMAIN c.fields : ~c.fields[n].linked /\ t[c.fields[n].name] # ""}
           Same(t, name) == {n \in Held(t) : t[c.fields[n].name] = name}
           Names(t) == {t[c.fields[n].name] : n \in Held(t)}
<1>1. \A t : Fields(c, t) =
                [name \in Names(t) |-> t[c.fields[Max(Same(t, name))].value]]
  BY DEF Fields
<1>2. Held(text) = Held(other)
  OBVIOUS
<1>3. Names(text) = Names(other)
  OBVIOUS
<1>4. \A name : Same(text, name) = Same(other, name)
  OBVIOUS
<1>5. ASSUME NEW name \in Names(text)
      PROVE  text[c.fields[Max(Same(text, name))].value]
                = other[c.fields[Max(Same(other, name))].value]
  <2>1. /\ Same(text, name) # {} /\ Len(c.fields) \in Nat
        /\ Same(text, name) \in SUBSET (1..Len(c.fields))
    <3>1. DOMAIN c.fields = 1..Len(c.fields) /\ Len(c.fields) \in Nat
      BY LenProperties
    <3> QED BY <1>5, <3>1
  <2>2. Max(Same(text, name)) \in Same(text, name)
    BY <2>1, MaxIsGreatest
  <2>3. PICK n \in DOMAIN c.fields :
           n = Max(Same(text, name)) /\ ~c.fields[n].linked
    BY <2>2
  <2>4. Max(Same(other, name)) = n
    BY <1>4, <2>3
  <2> QED BY <2>3, <2>4
<1> HIDE DEF Names, Same, Held
<1> QED BY <1>1, <1>3, <1>5

(* An item in which nothing failed to decrypt holds what was stored.       *)
LEMMA NothingFailed ==
    ASSUME NEW c \in CipherForm, ~decryptCipherFails(c), FieldNamesOpen(c)
    PROVE  Content(c) = ItemWith(c, [s \in Strings(c) |-> s.text])
<1>0. /\ \E t : t = [s \in Strings(c) |-> DecryptStr(s, KeyOf(c))]
      /\ \E t : t = [s \in Strings(c) |-> s.text]
  OBVIOUS
<1>1. PICK text : text = [s \in Strings(c) |-> DecryptStr(s, KeyOf(c))]
  BY <1>0
<1>2. PICK stored : stored = [s \in Strings(c) |-> s.text]
  BY <1>0
<1>3. ASSUME NEW s \in Strings(c), ~Fails(s, KeyOf(c)) PROVE text[s] = stored[s]
  BY <1>1, <1>2, <1>3, NoFailure
<1>4. text[c.password] = stored[c.password] /\ text[c.notes] = stored[c.notes]
  BY <1>3 DEF decryptCipherFails, Strings
<1>5. ASSUME NEW n \in DOMAIN c.fields, ~c.fields[n].linked
      PROVE  /\ text[c.fields[n].name] = stored[c.fields[n].name]
             /\ text[c.fields[n].value] = stored[c.fields[n].value]
  <2>1. PICK f \in ToSet(c.fields) : f = c.fields[n]
    BY DEF ToSet
  <2>2. f.name \in Strings(c) /\ f.value \in Strings(c)
    BY DEF Strings
  <2>3. ~Fails(f.name, KeyOf(c)) /\ ~Fails(f.value, KeyOf(c))
    BY <1>5, <2>1 DEF decryptCipherFails, FieldNamesOpen
  <2> QED BY <1>3, <2>1, <2>2, <2>3
<1>6. c.fields \in Seq(Field)
  BY DEF CipherForm
<1>7. Fields(c, text) = Fields(c, stored)
  BY <1>5, <1>6, FieldsAgree
<1>8. ItemWith(c, text) = ItemWith(c, stored)
  BY <1>4, <1>7 DEF ItemWith
<1> QED BY <1>1, <1>2, <1>8 DEF Content

(* The first field of some ranks is the filled one of the least rank.      *)
Filled(fields, ranks) ==
    {n \in ranks : FieldNames[n] \in DOMAIN fields /\ fields[FieldNames[n]] # ""}

LEMMA FirstFieldIsLeast ==
    ASSUME NEW fields, NEW ranks \in SUBSET Nat
    PROVE  /\ FirstField(fields, ranks) = "" => Filled(fields, ranks) = {}
           /\ FirstField(fields, ranks) # "" =>
                 \E n \in Filled(fields, ranks) :
                    /\ FirstField(fields, ranks) = fields[FieldNames[n]]
                    /\ \A m \in Filled(fields, ranks) : n <= m
<1>1. PICK filled : filled = Filled(fields, ranks)
  OBVIOUS
<1>2. FirstField(fields, ranks) =
         IF filled = {} THEN "" ELSE fields[FieldNames[Min(filled)]]
  BY <1>1 DEF FirstField, Filled
<1>3. CASE filled # {}
  <2>1. Min(filled) \in filled /\ \A m \in filled : Min(filled) <= m
    BY <1>1, <1>3, MinIsLeast DEF Filled
  <2> QED BY <1>1, <1>2, <1>3, <2>1 DEF Filled
<1> QED BY <1>1, <1>2, <1>3

(* The first of four texts that is not empty.                              *)
IsFirstOf(text, a, b, c, d) ==
    /\ a # "" => text = a
    /\ a = "" /\ b # "" => text = b
    /\ a = "" /\ b = "" /\ c # "" => text = c
    /\ a = "" /\ b = "" /\ c = "" => text = d

LEMMA FirstOfFour ==
    ASSUME NEW a, NEW b, NEW c, NEW d
    PROVE  IsFirstOf(FirstFilled(<<a, b, c, d>>), a, b, c, d)
<1> USE DEF IsFirstOf
<1>1. PICK texts : texts = <<a, b, c, d>>
  OBVIOUS
<1>2. /\ DOMAIN texts = 1..4
      /\ texts[1] = a /\ texts[2] = b /\ texts[3] = c /\ texts[4] = d
  BY <1>1
<1>3. PICK filled : filled = {n \in 1..4 : texts[n] # ""}
  OBVIOUS
<1>4. FirstFilled(texts) = IF filled = {} THEN "" ELSE texts[Min(filled)]
  BY <1>2, <1>3 DEF FirstFilled
<1>5. 1 \in 1..4 /\ 2 \in 1..4 /\ 3 \in 1..4 /\ 4 \in 1..4
  OBVIOUS
<1>6. CASE filled = {}
  <2>1. \A n \in 1..4 : texts[n] = ""
    BY <1>3, <1>6
  <2>2. a = "" /\ b = "" /\ c = "" /\ d = ""
    BY <1>2, <1>5, <2>1
  <2> QED BY <1>1, <1>4, <1>6, <2>2
<1>7. CASE filled # {}
  <2>1. filled \in SUBSET Nat
    <3>1. \A n \in 1..4 : n \in Nat
      OBVIOUS
    <3> QED BY <1>3, <3>1, Zenon
  <2>2. PICK n \in 1..4 : /\ n = Min(filled) /\ texts[n] # ""
                          /\ \A m \in filled : n <= m
    BY <1>3, <1>7, <2>1, MinIsLeast
  <2>3. FirstFilled(<<a, b, c, d>>) = texts[n]
    BY <1>1, <1>4, <1>7, <2>2
  <2>4. ASSUME NEW m \in 1..4, m < n PROVE texts[m] = ""
    <3>1. ~(n <= m)
      BY <2>4
    <3> QED BY <1>3, <2>2, <3>1, Zenon
  <2>5. n = 1 \/ n = 2 \/ n = 3 \/ n = 4
    OBVIOUS
  <2>6. /\ n = 2 => a = ""
        /\ n = 3 => a = "" /\ b = ""
        /\ n = 4 => a = "" /\ b = "" /\ c = ""
    <3>1. /\ n = 2 => 1 < n
          /\ n = 3 => 1 < n /\ 2 < n
          /\ n = 4 => 1 < n /\ 2 < n /\ 3 < n
      OBVIOUS
    <3> QED BY <1>2, <1>5, <2>4, <3>1, Zenon
  <2> QED BY <1>2, <2>2, <2>3, <2>5, <2>6, Zenon
<1> QED BY <1>6, <1>7

(* Ranks are distinct, so that what is ranked first is determined.         *)
RankOf(n) == IF n <= Preferred THEN n ELSE n + 1

LEMMA RanksAreDistinct ==
    /\ DOMAIN FieldNames = 1..Len(FieldNames) /\ Preferred \in 0..Len(FieldNames)
    /\ Preferred \in Nat /\ Len(FieldNames) \in Nat
    /\ \A n, m \in DOMAIN FieldNames :
          /\ RankOf(n) \in Nat /\ RankOf(n) # 0 /\ RankOf(n) # Preferred + 1
          /\ RankOf(n) = RankOf(m) => n = m
<1>1. DOMAIN FieldNames = 1..Len(FieldNames) /\ Len(FieldNames) \in Nat
  BY FieldNameAssumption, LenProperties
<1>2. Preferred \in 0..Len(FieldNames)
  BY FieldNameAssumption
<1>3. Preferred \in Nat
  BY <1>1, <1>2
<1> QED BY <1>1, <1>2, <1>3 DEF RankOf

(* The entries of the ranking, one by one.                                 *)
IsRanked(q, stored) ==
    \/ q = <<0, stored.password>>
    \/ q = <<Preferred + 1, stored.notes>>
    \/ \E n \in DOMAIN FieldNames :
          /\ FieldNames[n] \in DOMAIN stored.fields
          /\ q = <<RankOf(n), stored.fields[FieldNames[n]]>>

LEMMA RankedAre ==
    ASSUME NEW c, NEW stored, stored = ItemWith(c, [s \in Strings(c) |-> s.text])
    PROVE  \A q : q \in Ranked(c) <=> IsRanked(q, stored)
<1>1. Ranked(c) = {<<0, stored.password>>, <<Preferred + 1, stored.notes>>}
        \cup {<<RankOf(n), stored.fields[FieldNames[n]]>> :
                 n \in {m \in DOMAIN FieldNames :
                          FieldNames[m] \in DOMAIN stored.fields}}
  BY DEF Ranked, RankOf
<1> QED BY <1>1 DEF IsRanked

(* No two entries have one rank.                                           *)
LEMMA RankedOnce ==
    ASSUME NEW c, NEW p \in Ranked(c), NEW q \in Ranked(c), p[1] = q[1]
    PROVE  p[1] \in Nat /\ p = q
<1>1. PICK stored : stored = ItemWith(c, [s \in Strings(c) |-> s.text])
  OBVIOUS
<1>2. \A x \in Ranked(c) : IsRanked(x, stored)
  BY <1>1, RankedAre
<1>3. /\ Preferred + 1 \in Nat /\ Preferred + 1 # 0
      /\ \A n, m \in DOMAIN FieldNames :
            /\ RankOf(n) \in Nat /\ RankOf(n) # 0 /\ RankOf(n) # Preferred + 1
            /\ RankOf(n) = RankOf(m) => n = m
  BY RanksAreDistinct
<1>4. CASE p = <<0, stored.password>>
  <2>1. q = <<0, stored.password>>
    BY <1>2, <1>3, <1>4 DEF IsRanked
  <2> QED BY <1>4, <2>1
<1>5. CASE p = <<Preferred + 1, stored.notes>>
  <2>1. q = <<Preferred + 1, stored.notes>>
    BY <1>2, <1>3, <1>5 DEF IsRanked
  <2> QED BY <1>3, <1>5, <2>1
<1>6. ASSUME NEW n \in DOMAIN FieldNames,
             p = <<RankOf(n), stored.fields[FieldNames[n]]>>
      PROVE  p[1] \in Nat /\ p = q
  <2>1. PICK m \in DOMAIN FieldNames :
           q = <<RankOf(m), stored.fields[FieldNames[m]]>>
    BY <1>2, <1>3, <1>6 DEF IsRanked
  <2>2. n = m
    BY <1>3, <1>6, <2>1
  <2> QED BY <1>3, <1>6, <2>1, <2>2
<1> QED BY <1>2, <1>4, <1>5, <1>6 DEF IsRanked

(* The secret of a cipher is the entry that is ranked first.               *)
FilledOf(c) == {r \in Ranked(c) : r[2] # ""}

LEMMA RankedFirst ==
    ASSUME NEW c, NEW r \in FilledOf(c), \A q \in FilledOf(c) : r[1] <= q[1]
    PROVE  SecretOf(c) = r[2]
<1>1. PICK filled : filled = FilledOf(c)
  OBVIOUS
<1>2. r \in filled /\ (\A q \in filled : r[1] <= q[1]) /\ r \in Ranked(c)
  BY <1>1 DEF FilledOf
<1>3. PICK first : first = CHOOSE x \in filled : \A q \in filled : x[1] <= q[1]
  OBVIOUS
<1>4. first \in filled /\ \A q \in filled : first[1] <= q[1]
  BY <1>2, <1>3, Zenon
<1>5. SecretOf(c) = first[2]
  BY <1>1, <1>2, <1>3 DEF SecretOf, FilledOf
<1>6. first \in Ranked(c)
  BY <1>1, <1>4 DEF FilledOf
<1>7. r[1] \in Nat /\ first[1] \in Nat
  BY <1>2, <1>6, RankedOnce
<1>8. r[1] = first[1]
  BY <1>2, <1>4, <1>7
<1>9. r = first
  BY <1>2, <1>6, <1>8, RankedOnce, Zenon
<1> QED BY <1>5, <1>9

(* What is ranked and not empty, one by one.                               *)
LEMMA FilledAre ==
    ASSUME NEW c, NEW stored, stored = ItemWith(c, [s \in Strings(c) |-> s.text])
    PROVE  /\ stored.password # "" => <<0, stored.password>> \in FilledOf(c)
           /\ stored.notes # "" => <<Preferred + 1, stored.notes>> \in FilledOf(c)
           /\ \A n \in Filled(stored.fields, DOMAIN FieldNames) :
                 <<RankOf(n), stored.fields[FieldNames[n]]>> \in FilledOf(c)
           /\ \A q \in FilledOf(c) :
                 \/ stored.password # "" /\ q[1] = 0
                 \/ stored.notes # "" /\ q[1] = Preferred + 1
                 \/ \E n \in Filled(stored.fields, DOMAIN FieldNames) :
                       q[1] = RankOf(n)
<1>1. \A q : q \in Ranked(c) <=> IsRanked(q, stored)
  BY RankedAre
<1>2. \A q : q \in FilledOf(c) <=> IsRanked(q, stored) /\ q[2] # ""
  BY <1>1 DEF FilledOf
<1>3. /\ stored.password # "" => <<0, stored.password>> \in FilledOf(c)
      /\ stored.notes # "" => <<Preferred + 1, stored.notes>> \in FilledOf(c)
  BY <1>2 DEF IsRanked
<1>4. ASSUME NEW n \in Filled(stored.fields, DOMAIN FieldNames)
      PROVE  <<RankOf(n), stored.fields[FieldNames[n]]>> \in FilledOf(c)
  <2>1. PICK value : value = stored.fields[FieldNames[n]]
    OBVIOUS
  <2>2. n \in DOMAIN FieldNames /\ FieldNames[n] \in DOMAIN stored.fields /\ value # ""
    BY <2>1 DEF Filled
  <2>3. IsRanked(<<RankOf(n), value>>, stored)
    BY <2>1, <2>2 DEF IsRanked
  <2>4. <<RankOf(n), value>>[2] # ""
    BY <2>2
  <2> QED BY <1>2, <2>1, <2>3, <2>4, Zenon
<1>5. ASSUME NEW q \in FilledOf(c)
      PROVE  \/ stored.password # "" /\ q[1] = 0
             \/ stored.notes # "" /\ q[1] = Preferred + 1
             \/ \E n \in Filled(stored.fields, DOMAIN FieldNames) : q[1] = RankOf(n)
  <2>1. IsRanked(q, stored) /\ q[2] # ""
    BY <1>2
  <2>2. ASSUME NEW n \in DOMAIN FieldNames, FieldNames[n] \in DOMAIN stored.fields,
               q = <<RankOf(n), stored.fields[FieldNames[n]]>>
        PROVE  n \in Filled(stored.fields, DOMAIN FieldNames) /\ q[1] = RankOf(n)
    <3>1. q[1] = RankOf(n) /\ q[2] = stored.fields[FieldNames[n]]
      BY <2>2
    <3> QED BY <2>1, <2>2, <3>1, Zenon DEF Filled
  <2>3. CASE q = <<0, stored.password>>
    <3>1. q[1] = 0 /\ q[2] = stored.password
      BY <2>3
    <3> QED BY <2>1, <3>1, Zenon
  <2>4. CASE q = <<Preferred + 1, stored.notes>>
    <3>1. q[1] = Preferred + 1 /\ q[2] = stored.notes
      BY <2>4
    <3> QED BY <2>1, <3>1, Zenon
  <2> QED BY <2>1, <2>2, <2>3, <2>4, Zenon DEF IsRanked
<1> QED BY <1>3, <1>4, <1>5

(* Of a decrypted item, extractSecret serves what is ranked first.         *)
LEMMA ServesTheFirst ==
    ASSUME NEW c, NEW stored, stored = ItemWith(c, [s \in Strings(c) |-> s.text])
    PROVE  extractSecret(stored) = SecretOf(c)
<1>1. PICK all : all = Filled(stored.fields, DOMAIN FieldNames)
  OBVIOUS
<1>2. PICK some : some = Filled(stored.fields, 1..Preferred)
  OBVIOUS
<1>3. /\ all \in SUBSET (1..Len(FieldNames)) /\ Len(FieldNames) \in Nat
      /\ Preferred \in 0..Len(FieldNames) /\ Preferred \in Nat
      /\ DOMAIN FieldNames = 1..Len(FieldNames)
  BY <1>1, RanksAreDistinct DEF Filled
<1>4. some = {n \in all : n <= Preferred}
  <2>1. \A n : n \in 1..Preferred <=> n \in DOMAIN FieldNames /\ n <= Preferred
    BY <1>3
  <2> QED BY <1>1, <1>2, <2>1, Zenon DEF Filled
<1>5. /\ 1..Preferred \in SUBSET Nat /\ DOMAIN FieldNames \in SUBSET Nat
  BY <1>3
<1>6. PICK preferred : preferred = FirstField(stored.fields, 1..Preferred)
  OBVIOUS
<1>7. PICK first : first = FirstField(stored.fields, DOMAIN FieldNames)
  OBVIOUS
<1>8. /\ stored.password # "" => extractSecret(stored) = stored.password
      /\ stored.password = "" /\ preferred # "" => extractSecret(stored) = preferred
      /\ stored.password = "" /\ preferred = "" /\ stored.notes # ""
            => extractSecret(stored) = stored.notes
      /\ stored.password = "" /\ preferred = "" /\ stored.notes = ""
            => extractSecret(stored) = first
  <2>1. extractSecret(stored) =
           FirstFilled(<<stored.password, preferred, stored.notes, first>>)
    BY <1>6, <1>7 DEF extractSecret
  <2>2. IsFirstOf(extractSecret(stored),
                  stored.password, preferred, stored.notes, first)
    BY <2>1, FirstOfFour
  <2> QED BY <2>2, Zenon DEF IsFirstOf
<1>9. \A q \in FilledOf(c) :
         \/ stored.password # "" /\ q[1] = 0
         \/ stored.notes # "" /\ q[1] = Preferred + 1
         \/ \E n \in all : q[1] = RankOf(n)
  BY <1>1, FilledAre, Zenon
<1>10. CASE stored.password # ""
  <2>1. <<0, stored.password>> \in FilledOf(c)
    BY <1>10, FilledAre, Zenon
  <2>2. \A q \in FilledOf(c) : q[1] \in Nat
    BY RankedOnce DEF FilledOf
  <2>3. \A q \in FilledOf(c) : 0 <= q[1]
    BY <2>2
  <2>4. SecretOf(c) = stored.password
    BY <2>1, <2>3, RankedFirst
  <2> QED BY <1>8, <1>10, <2>4, Zenon
<1>11. CASE stored.password = "" /\ preferred # ""
  <2>1. PICK n \in some : /\ preferred = stored.fields[FieldNames[n]]
                          /\ \A m \in some : n <= m
    BY <1>2, <1>5, <1>6, <1>11, FirstFieldIsLeast, Zenon
  <2>2. <<RankOf(n), preferred>> \in FilledOf(c)
    BY <1>1, <1>4, <2>1, FilledAre
  <2>3. \A m \in all : RankOf(n) <= RankOf(m)
    BY <1>3, <1>4, <2>1 DEF RankOf
  <2>4. RankOf(n) <= Preferred + 1
    BY <1>3, <1>4 DEF RankOf
  <2>5. \A q \in FilledOf(c) : RankOf(n) <= q[1]
    BY <1>9, <1>11, <2>3, <2>4, Zenon
  <2>6. SecretOf(c) = preferred
    BY <2>2, <2>5, RankedFirst
  <2> QED BY <1>8, <1>11, <2>6, Zenon
<1>12. CASE stored.password = "" /\ preferred = "" /\ stored.notes # ""
  <2>1. some = {}
    BY <1>2, <1>5, <1>6, <1>12, FirstFieldIsLeast, Zenon
  <2>2. <<Preferred + 1, stored.notes>> \in FilledOf(c)
    BY <1>12, FilledAre, Zenon
  <2>3. \A m \in all : Preferred + 1 <= RankOf(m)
    BY <1>3, <1>4, <2>1 DEF RankOf
  <2>4. Preferred + 1 <= Preferred + 1
    BY <1>3
  <2>5. \A q \in FilledOf(c) : Preferred + 1 <= q[1]
    BY <1>9, <1>12, <2>3, <2>4, Zenon
  <2>6. SecretOf(c) = stored.notes
    BY <2>2, <2>5, RankedFirst
  <2> QED BY <1>8, <1>12, <2>6, Zenon
<1>13. CASE stored.password = "" /\ stored.notes = "" /\ preferred = "" /\ first # ""
  <2>1. PICK n \in all : /\ first = stored.fields[FieldNames[n]]
                         /\ \A m \in all : n <= m
    BY <1>1, <1>5, <1>7, <1>13, FirstFieldIsLeast, Zenon
  <2>2. <<RankOf(n), first>> \in FilledOf(c)
    BY <1>1, <2>1, FilledAre
  <2>3. \A m \in all : RankOf(n) <= RankOf(m)
    BY <1>3, <2>1 DEF RankOf
  <2>4. \A q \in FilledOf(c) : RankOf(n) <= q[1]
    BY <1>9, <1>13, <2>3, Zenon
  <2>5. SecretOf(c) = first
    BY <2>2, <2>4, RankedFirst
  <2> QED BY <1>8, <1>13, <2>5, Zenon
<1>14. CASE stored.password = "" /\ stored.notes = "" /\ preferred = "" /\ first = ""
  <2>1. all = {}
    BY <1>1, <1>5, <1>7, <1>14, FirstFieldIsLeast, Zenon
  <2>2. FilledOf(c) = {}
    BY <1>9, <1>14, <2>1, Zenon
  <2>3. SecretOf(c) = ""
    BY <2>2 DEF SecretOf, FilledOf
  <2> QED BY <1>8, <1>14, <2>3, Zenon
<1> QED BY <1>10, <1>11, <1>12, <1>13, <1>14, Zenon

(* The secret served of an item is the one stored in it, unless the name   *)
(* of one of its fields did not decrypt.                                   *)
THEOREM NothingIsLostSilently == Spec => []NoSilentLoss
<1>1. IInv => NoSilentLoss
  <2> SUFFICES ASSUME IInv, NEW item \in items, FieldNamesOpen(taken[item.at])
               PROVE  ServesTheStored(item)
    BY DEF NoSilentLoss
  <2>1. PICK n \in DOMAIN taken : item = ItemAt(n) /\ IsOpen(taken[n])
    BY DEF IInv, Divided
  <2>2. item.at = n /\ item.content = Content(taken[n])
    BY <2>1 DEF ItemAt
  <2>3. PICK c : c = taken[n]
    OBVIOUS
  <2>4. c \in CipherForm /\ ~decryptCipherFails(c) /\ FieldNamesOpen(c)
    BY <2>1, <2>2, <2>3, FormAssumption DEF IInv, Types, IsOpen, IsSealed
  <2>5. Content(c) = ItemWith(c, [s \in Strings(c) |-> s.text])
    BY <2>4, NothingFailed
  <2>6. extractSecret(Content(c)) = SecretOf(c)
    BY <2>5, ServesTheFirst
  <2> QED BY <2>2, <2>3, <2>6 DEF ServesTheStored
<1> QED BY <1>1, Invariance, PTL
=============================================================================
