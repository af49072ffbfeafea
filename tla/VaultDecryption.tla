-------------------------- MODULE VaultDecryption --------------------------
(***************************************************************************)
(* How the account's keys are unlocked and one answer of GET /api/sync is  *)
(* decrypted: MakeMasterKey and DecryptSymmetricKey at login, then the     *)
(* second half of APIClient.Sync, cipher by cipher, and the value that is  *)
(* served of a decrypted item.  VaultData knows only whether a cipher      *)
(* opens; this module says what that comes to.                             *)
(*                                                                         *)
(* Cryptography is symbolic.  A string the server sends is a record: its   *)
(* type, the key it was encrypted under, whether IV, ciphertext, MAC and   *)
(* padding are as they were written, and the text inside.  "" is the empty *)
(* text.  Type "plain" is whatever ParseCipherString rejects.              *)
(***************************************************************************)
EXTENDS VaultData, Integers, FiniteSets, FiniteSetsExt, SequencesExt

CONSTANTS
    KdfParams,      \* what prelogin may answer
    NotSent,        \* a parameter left out of it, or null
    UserKeys,       \* the encrypted user key, of login or profile
    Answers,        \* the keys in the profile part of an answer
    CipherForms,    \* the ciphers an answer may contain
    LabelForms,     \* the names of organizations, folders and collections
    FieldNames,     \* names of fields: those extractSecret prefers, then the
    Preferred,      \* others as they sort; the first Preferred are the former
    MaxCiphers      \* bound: ciphers of one answer

(* A place is an organization, or "none" for the user's own vault. *)
Orgs == Places \ {"none"}

(* A string that is empty, or was not sent. *)
Empty == [type |-> "empty", under |-> "none", intact |-> FALSE, text |-> ""]

(* What the server can send as a string, a field and a cipher.             *)
CipherString ==
    {Empty} \cup [type : {"plain", "0", "2", "3", "4"}, under : STRING,
                  intact : BOOLEAN, text : STRING]
Field == [linked : BOOLEAN, name : CipherString, value : CipherString]
CipherForm == [id : Ciphers, org : Places, trashed : BOOLEAN,
               name : CipherString, password : CipherString,
               notes : CipherString, fields : Seq(Field)]

ASSUME FormAssumption ==
    /\ CipherForms \subseteq CipherForm
    /\ UserKeys \subseteq CipherString /\ LabelForms \subseteq CipherString
    /\ \A a \in Answers : /\ a.privateKey \in CipherString
                          /\ \A o \in DOMAIN a.orgs : a.orgs[o] \in CipherString
ASSUME KdfAssumption ==
    /\ NotSent \notin Int
    /\ KdfParams \subseteq [type : Nat, iterations : Int,
                            memory : Int \cup {NotSent},
                            parallelism : Int \cup {NotSent}]
ASSUME FieldNameAssumption ==
    FieldNames \in Seq(STRING) /\ Preferred \in 0..Len(FieldNames)

CarriesMac(key) == key # "master"

ParseCipherString(s) == s.type \in {"0", "2", "3", "4"}

(***************************************************************************)
(* CipherString.Decrypt.  Types 3 and 4 carry no IV and fail its length    *)
(* check.  Mutant: a string without a MAC is taken under any key.          *)
(***************************************************************************)
OpensUnauthenticated(s, key) ==
    /\ s.under = key /\ s.intact
    /\ s.type = "0" \/ (s.type = "2" /\ CarriesMac(key))

Decrypts(s, key) ==
    /\ s.under = key /\ s.intact
    /\ \/ s.type = "0" /\ ~CarriesMac(key)
       \/ s.type = "2" /\ CarriesMac(key)

DecryptsRSA(s, key) == s.type \in {"3", "4"} /\ s.under = key /\ s.intact

(* DecryptStr: the empty string decrypts to itself. *)
Fails(s, key) == s # Empty /\ ~Decrypts(s, key)

DecryptStr(s, key) == IF s # Empty /\ Decrypts(s, key) THEN s.text ELSE ""

(* A 64-byte plaintext is a key and named by it; other lengths are not,    *)
(* the master key's 32 bytes among them, and "none" names no key.          *)
IsKey(text) == text \notin {"", "short", "master", "none"}

VARIABLES
    kdf,        \* what the master key was derived with; none asked for
    key,        \* APIClient.symKey, "none" before the first login
    pc,
    orgKeys,    \* the organizations' keys this answer gave, "none" if not
    taken,      \* the ciphers of the answer seen so far
    items,      \* those that decrypted, as [at |-> index in taken, ...]
    failed,     \* the failure list
    labels,     \* the label sent, the same for every kind of name
    names       \* what SyncNameMaps shows for it, by kind, "" for no entry

answerVars == <<taken, items, failed>>
nameVars == <<labels, names>>
vars == <<kdf, key, pc, orgKeys, answerVars, nameVars>>

NoKdf == [asked |-> "none"]
NoNames == [org |-> "", folder |-> "", collection |-> ""]

Init ==
    /\ kdf = NoKdf /\ key = "none" /\ pc = "idle"
    /\ orgKeys = [o \in Orgs |-> "none"]
    /\ taken = <<>> /\ items = {} /\ failed = {}
    /\ labels = Empty /\ names = NoNames

(***************************************************************************)
(* MakeMasterKey.  Memory is in MiB: multiplied by 1024 it is cut to 32    *)
(* bits (4194304 MiB), parallelism to 8.  A parameter that is not sent has *)
(* a default; one that is sent is checked, whatever its value.  Mutant:    *)
(* only the floors are checked.                                            *)
(***************************************************************************)
Within(x, low, high) == x # NotSent => x \in low..high

AboveFloors(p) ==
    CASE p.type = 0 -> p.iterations >= 5000
      [] p.type = 1 -> /\ p.iterations >= 1
                       /\ p.memory # NotSent => p.memory >= 16
                       /\ p.parallelism # NotSent => p.parallelism >= 1
      [] OTHER -> FALSE

AcceptsKdf(p) ==
    CASE p.type = 0 -> p.iterations >= 5000
      [] p.type = 1 -> /\ p.iterations \in 1..100
                       /\ Within(p.memory, 16, 1024)
                       /\ Within(p.parallelism, 1, 64)
      [] OTHER -> FALSE

Derivation(p) ==
    [asked |-> p,
     memory |-> IF p.memory = NotSent THEN 64 ELSE p.memory % 4194304,
     threads |-> IF p.parallelism = NotSent THEN 4 ELSE p.parallelism % 256]

Derive(p) ==
    /\ pc = "idle" /\ AcceptsKdf(p)
    /\ kdf' = Derivation(p)
    /\ pc' = "login"
    /\ UNCHANGED <<key, orgKeys, answerVars, nameVars>>

(* DecryptSymmetricKey: the stretched master key, then the bare one. *)
DecryptSymmetricKey(s) ==
    IF (Decrypts(s, "stretched") \/ Decrypts(s, "master")) /\ IsKey(s.text)
    THEN s.text ELSE "none"

(* An error leaves the key in use as it is. *)
Login(s) ==
    /\ pc = "login"
    /\ key' = IF DecryptSymmetricKey(s) = "none" THEN key
              ELSE DecryptSymmetricKey(s)
    /\ kdf' = NoKdf
    /\ pc' = "idle"
    /\ UNCHANGED <<orgKeys, answerVars, nameVars>>

(* DecryptPrivateKey and DecryptOrgKey.  Without the private key there is  *)
(* no organization key.                                                    *)
PrivateKey(a) ==
    IF Decrypts(a.privateKey, key) THEN a.privateKey.text ELSE "none"

OrgKeysOf(a) ==
    [o \in Orgs |->
        IF /\ PrivateKey(a) # "none" /\ o \in DOMAIN a.orgs
           /\ DecryptsRSA(a.orgs[o], PrivateKey(a)) /\ IsKey(a.orgs[o].text)
        THEN a.orgs[o].text ELSE "none"]

Receive(a) ==
    /\ pc = "idle" /\ key # "none"
    /\ orgKeys' = OrgKeysOf(a)
    /\ pc' = "ciphers"
    /\ UNCHANGED <<kdf, key, answerVars, nameVars>>

(* The key a cipher is decrypted with, "none" if there is none. *)
KeyOf(c) == IF c.org = "none" THEN key ELSE orgKeys[c.org]

(* decryptCipher: what extractSecret can serve must decrypt; names of      *)
(* fields, and user name and URIs, which are never served, may fail.       *)
(* Mutant: a password that does not decrypt is left empty.                 *)
NameAndValuesFail(c) ==
    \/ Fails(c.name, KeyOf(c))
    \/ \E f \in ToSet(c.fields) : ~f.linked /\ Fails(f.value, KeyOf(c))

decryptCipherFails(c) ==
    \/ Fails(c.name, KeyOf(c)) \/ Fails(c.notes, KeyOf(c))
    \/ Fails(c.password, KeyOf(c))
    \/ \E f \in ToSet(c.fields) : ~f.linked /\ Fails(f.value, KeyOf(c))

Strings(c) ==
    {c.name, c.password, c.notes}
        \cup UNION {{f.name, f.value} : f \in ToSet(c.fields)}

(* The map of fields, from the text of each string: of two with one name   *)
(* the later one stays, and one without a name is dropped.                 *)
Fields(c, text) ==
    LET NameAt(n) == text[c.fields[n].name]
        held == {n \in DOMAIN c.fields : ~c.fields[n].linked /\ NameAt(n) # ""}
    IN  [name \in {NameAt(n) : n \in held} |->
            text[c.fields[Max({n \in held : NameAt(n) = name})].value]]

ItemWith(c, text) ==
    [password |-> text[c.password], notes |-> text[c.notes],
     fields |-> Fields(c, text)]

Content(c) == ItemWith(c, [s \in Strings(c) |-> DecryptStr(s, KeyOf(c))])

(* Mutant: a cipher whose organization's key is missing is just skipped. *)
TakeKnown(c) ==
    /\ pc = "ciphers" /\ Len(taken) < MaxCiphers
    /\ taken' = Append(taken, c)
    /\ IF c.trashed \/ KeyOf(c) = "none" THEN UNCHANGED <<items, failed>>
       ELSE IF decryptCipherFails(c)
       THEN failed' = failed \cup {c.id} /\ UNCHANGED items
       ELSE /\ items' = items \cup {[at |-> Len(taken) + 1, content |-> Content(c)]}
            /\ UNCHANGED failed
    /\ UNCHANGED <<kdf, key, pc, orgKeys, nameVars>>

Take(c) ==
    /\ pc = "ciphers" /\ Len(taken) < MaxCiphers
    /\ taken' = Append(taken, c)
    /\ IF c.trashed THEN UNCHANGED <<items, failed>>
       ELSE IF KeyOf(c) = "none" \/ decryptCipherFails(c)
       THEN failed' = failed \cup {c.id} /\ UNCHANGED items
       ELSE /\ items' = items \cup {[at |-> Len(taken) + 1, content |-> Content(c)]}
            /\ UNCHANGED failed
    /\ UNCHANGED <<kdf, key, pc, orgKeys, nameVars>>

(***************************************************************************)
(* decryptVaultLabel: the first key that gives a text, or the string as it *)
(* is if it is no cipher string.  buildSyncNameMaps: organizations by the  *)
(* user's and their own key, folders by the user's, collections by their   *)
(* organization's.                                                         *)
(***************************************************************************)
decryptVaultLabel(s, keys) ==
    LET open == {n \in DOMAIN keys : /\ keys[n] # "none"
                                     /\ DecryptStr(s, keys[n]) # ""}
    IN  IF open # {} THEN DecryptStr(s, keys[Min(open)])
        ELSE IF ParseCipherString(s) THEN "" ELSE s.text

NamesOf(s, o) ==
    [org |-> decryptVaultLabel(s, <<key, orgKeys[o]>>),
     folder |-> decryptVaultLabel(s, <<key>>),
     collection |-> IF orgKeys[o] = "none" THEN ""
                    ELSE decryptVaultLabel(s, <<orgKeys[o]>>)]

Refused == items = {} /\ failed # {}

(* The end of Sync: an error that carries the failures, or the items with  *)
(* the names.                                                              *)
Refuse ==
    /\ pc = "ciphers" /\ Refused
    /\ pc' = "refused"
    /\ UNCHANGED <<kdf, key, orgKeys, answerVars, nameVars>>

Return(s, o) ==
    /\ pc = "ciphers" /\ ~Refused
    /\ labels' = s
    /\ names' = NamesOf(s, o)
    /\ pc' = "returned"
    /\ UNCHANGED <<kdf, key, orgKeys, answerVars>>

NextSync ==
    /\ pc \in {"refused", "returned"}
    /\ orgKeys' = [o \in Orgs |-> "none"]
    /\ taken' = <<>> /\ items' = {} /\ failed' = {}
    /\ labels' = Empty /\ names' = NoNames
    /\ pc' = "idle"
    /\ UNCHANGED <<kdf, key>>

Next ==
    \/ \E p \in KdfParams : Derive(p)
    \/ \E s \in UserKeys : Login(s)
    \/ \E a \in Answers : Receive(a)
    \/ \E c \in CipherForms :
          (\A n \in DOMAIN taken : taken[n].id # c.id) /\ Take(c)
    \/ Refuse
    \/ \E s \in LabelForms, o \in Orgs : Return(s, o)
    \/ NextSync

Spec == Init /\ [][Next]_vars

(***************************************************************************)
(* extractSecret: the password, a preferred field, the notes, or the first *)
(* field by name, whichever is not empty.                                  *)
(***************************************************************************)
FirstField(fields, ranks) ==
    LET filled == {n \in ranks : /\ FieldNames[n] \in DOMAIN fields
                                 /\ fields[FieldNames[n]] # ""}
    IN  IF filled = {} THEN "" ELSE fields[FieldNames[Min(filled)]]

FirstFilled(texts) ==
    LET filled == {n \in DOMAIN texts : texts[n] # ""}
    IN  IF filled = {} THEN "" ELSE texts[Min(filled)]

extractSecret(content) ==
    FirstFilled(<<content.password,
                  FirstField(content.fields, 1..Preferred), content.notes,
                  FirstField(content.fields, DOMAIN FieldNames)>>)
-----------------------------------------------------------------------------
(***************************************************************************)
(* Properties.                                                             *)
(***************************************************************************)

(* A string of the MAC-carrying type as somebody with the key wrote it. *)
Genuine(s, k) == s.type = "2" /\ s.under = k /\ s.intact

(* A text that is not empty is that of a genuine string. *)
IsTextOf(text, s, k) == text # "" => Genuine(s, k) /\ s.text = text

Authenticated(c, k, content) ==
    /\ CarriesMac(k)
    /\ IsTextOf(content.password, c.password, k)
    /\ IsTextOf(content.notes, c.notes, k)
    /\ \A name \in DOMAIN content.fields :
          \E f \in ToSet(c.fields) :
             /\ ~f.linked /\ IsTextOf(name, f.name, k)
             /\ IsTextOf(content.fields[name], f.value, k)

(* Nothing unauthenticated is shown: every text of an item that is cached  *)
(* is from a string with a correct MAC, under the key that the cipher's    *)
(* place calls for, itself never the bare master key; and a name that is   *)
(* shown is one that was sent in the clear, or was authenticated as well   *)
(* (crypto.go:156-162, api_client.go:349-351).                             *)
AuthenticatedOnly ==
    /\ \A item \in items :
          Authenticated(taken[item.at], KeyOf(taken[item.at]), item.content)
    /\ \A kind \in DOMAIN names :
          names[kind] # "" =>
              /\ labels.text = names[kind]
              /\ \/ labels.type = "plain"
                 \/ \E k \in {key} \cup ToSet(orgKeys) : Genuine(labels, k)

(***************************************************************************)
(* The answer as VaultData describes it: a cipher is open if its key is at *)
(* hand and everything that can be served of it is genuine.                *)
(***************************************************************************)
ServableStrings(c) ==
    {c.name, c.password, c.notes}
        \cup {f.value : f \in {g \in ToSet(c.fields) : ~g.linked}}

Readable(c) ==
    /\ KeyOf(c) # "none"
    /\ \A s \in ServableStrings(c) : s = Empty \/ Genuine(s, KeyOf(c))

StateOf(c) ==
    IF c.trashed THEN "trashed" ELSE IF Readable(c) THEN "open" ELSE "sealed"

Sent ==
    [id \in Ciphers |->
        LET found == {c \in ToSet(taken) : c.id = id}
        IN  [state |-> IF found = {} THEN "absent"
                       ELSE StateOf(CHOOSE c \in found : TRUE)]]

(* Every cipher of the answer that is not in the trash ends up either as   *)
(* an item or on the failure list, and which one is decided by what can be *)
(* served of it; one that is on neither would vanish from the cache        *)
(* (client.go:442-460), and one wrongly on the list would grow stale.      *)
AccountedFor ==
    pc \in {"refused", "returned"} =>
        /\ {taken[item.at].id : item \in items} = Decrypted(Sent)
        /\ failed = FailedCiphers(Sent)
        /\ pc = "refused" <=> NothingDecrypts(Sent)

(***************************************************************************)
(* "Priority: password > field named value/secret/api_key > notes > first  *)
(* field" (client.go:575), of what was stored, each text with its rank.    *)
(***************************************************************************)
Ranked(c) ==
    LET stored == ItemWith(c, [s \in Strings(c) |-> s.text])
        Rank(n) == IF n <= Preferred THEN n ELSE n + 1
    IN  {<<0, stored.password>>, <<Preferred + 1, stored.notes>>}
        \cup {<<Rank(n), stored.fields[FieldNames[n]]>> :
                 n \in {m \in DOMAIN FieldNames :
                          FieldNames[m] \in DOMAIN stored.fields}}

SecretOf(c) ==
    LET filled == {r \in Ranked(c) : r[2] # ""}
    IN  IF filled = {} THEN ""
        ELSE (CHOOSE r \in filled : \A q \in filled : r[1] <= q[1])[2]

ServesTheStored(item) ==
    extractSecret(item.content) = SecretOf(taken[item.at])

FieldNamesOpen(c) ==
    \A f \in ToSet(c.fields) : f.linked \/ ~Fails(f.name, KeyOf(c))

(* No silent loss: what is served of an item is the value that was stored, *)
(* never an empty or a less preferred one because a part did not decrypt   *)
(* (api_client.go:638-642); names of fields excepted, see ServedIsStored.  *)
NoSilentLoss ==
    \A item \in items :
        FieldNamesOpen(taken[item.at]) => ServesTheStored(item)

(* "Every field extractSecret can serve is fatal on failure"               *)
(* (api_client.go:638), whichever part of the field it is that fails.      *)
ServedIsStored == \A item \in items : ServesTheStored(item)

(* Argon2id runs with the numbers that the server sent, not with what the *)
(* conversions to uint32 and uint8 would leave of larger ones, not with a  *)
(* default where one was sent, and not with a zero, on which it panics     *)
(* (crypto.go:237-257): a key derived otherwise is another key.            *)
KdfAsAsked ==
    kdf # NoKdf /\ kdf.asked.type = 1 =>
        /\ kdf.asked.memory \in {NotSent, kdf.memory}
        /\ kdf.asked.parallelism \in {NotSent, kdf.threads}
        /\ kdf.asked.iterations > 0 /\ kdf.threads > 0
=============================================================================
