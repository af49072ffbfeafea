------------------------- MODULE MCVaultDecryption -------------------------
(***************************************************************************)
(* Small instances of VaultDecryption: two ciphers in the user's vault or  *)
(* an organization's, each part of them sent well, damaged, without its    *)
(* MAC, under another key or not at all, and every bound of the KDF's      *)
(* parameters from both sides.                                             *)
(***************************************************************************)
EXTENDS VaultDecryption

MCCiphers == {1, 2}
MCPlaces == {"none", "org"}

Str(type, under, intact, text) ==
    [type |-> type, under |-> under, intact |-> intact, text |-> text]
Good(under, text) == Str("2", under, TRUE, text)
Torn(under, text) == Str("2", under, FALSE, text)
Bare(under, text) == Str("0", under, TRUE, text)

MCKdfParams ==
    [type : {1}, iterations : {0, 1, 100, 101},
     memory : {NotSent, -1, 0, 15, 16, 1024, 1025, 2^22, 2^22 + 64},
     parallelism : {NotSent, -1, 0, 1, 64, 65, 256, 260}]
    \cup [type : {0, 2}, iterations : {4999, 5000}, memory : {NotSent},
          parallelism : {NotSent}]

MCUserKeys == {Good("stretched", "user"), Bare("master", "user"),
               Bare("stretched", "user"), Good("stretched", "short"),
               Torn("stretched", "user"), Empty}

Profile(private, org) == [privateKey |-> private, orgs |-> [o \in {"org"} |-> org]]
OrgString(type, text) == Str(type, "private", TRUE, text)
MCAnswers ==
    {Profile(Good("user", "private"), OrgString("4", "orgkey")),
     Profile(Good("user", "private"), OrgString("3", "short")),
     Profile(Good("user", "private"), Good("user", "orgkey")),
     Profile(Torn("user", "private"), OrgString("4", "orgkey")),
     Profile(Empty, OrgString("4", "orgkey"))}

MCFieldNames == <<"value", "token", "extra">>
MCField(linked, name, value) == [linked |-> linked, name |-> name, value |-> value]
FieldLists(k) ==
    {<<>>,
     <<MCField(FALSE, Good(k, "token"), Good(k, "t1"))>>,
     <<MCField(FALSE, Good(k, "extra"), Torn(k, "x1"))>>,
     <<MCField(FALSE, Good(k, "extra"), Good(k, "x1")),
       MCField(FALSE, Good(k, "value"), Good(k, ""))>>,
     <<MCField(FALSE, Torn(k, "value"), Good(k, "v1"))>>,
     <<MCField(TRUE, Good(k, "value"), Str("plain", "none", TRUE, "100"))>>,
     <<MCField(FALSE, Good(k, "value"), Good(k, "v1")),
       MCField(FALSE, Good(k, "value"), Good(k, "v2")),
       MCField(FALSE, Empty, Good(k, "v3"))>>}

Cipher(id, org, trashed, name, password, notes, fields) ==
    [id |-> id, org |-> org, trashed |-> trashed, name |-> name,
     password |-> password, notes |-> notes, fields |-> fields]

(* The first cipher in every form, the second in those that matter to it. *)
Forms(org, k) ==
    {Cipher(1, org, FALSE, Good(k, "name"), parts[1], parts[2], fields) :
        fields \in FieldLists(k),
        parts \in {Empty, Good(k, "p1"), Torn(k, "p1"), Bare(k, "p1")}
                      \X {Empty, Good(k, "n1"), Good("old", "n1")}}
    \cup {Cipher(id, org, trashed, name, Good(k, "p1"), Empty, <<>>) :
            id \in MCCiphers, trashed \in BOOLEAN,
            name \in {Good(k, "name"), Torn(k, "name")}}

MCCipherForms == Forms("none", "user") \cup Forms("org", "orgkey")

MCLabelForms ==
    {Empty, Good("user", "L"), Good("orgkey", "L"), Torn("user", "L"),
     Good("user", ""), Str("plain", "none", TRUE, "L")}
=============================================================================
