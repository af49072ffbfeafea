------------------------- MODULE MCSecretRequests -------------------------
(***************************************************************************)
(* Small instances of SecretRequests: two ciphers, two organizations whose *)
(* names are exchanged, shared or lost, one collection and one folder, and *)
(* queries and scopes by id, by name and by neither.                       *)
(***************************************************************************)
EXTENDS SecretRequests, TLC

CONSTANTS r1, r2, A, B, k1, k2, k3, short

MCOneRequest == {r1}
MCTwoRequests == {r1, r2}
MCSymmetry == Permutations(Requests)

MCCiphers == {1, 2}
MCOrgs == {1, 2}
MCCols == {3}
MCFolders == {4}
MCLabels == {A, B}

MCAllKinds == {"equal", "folded", "containing", "other"}
MCOneKind == {"equal"}
MCFoldedKinds == {"folded", "other"}

Place(org, cols, folder) == [org |-> org, cols |-> cols, folder |-> folder]
MCPlaces == {Place(1, {3}, NoId), Place(2, {}, NoId), Place(NoId, {}, 4)}
MCOrgPlaces == {Place(1, {3}, NoId), Place(2, {}, NoId)}

Named(orgs, cols) == [orgs |-> orgs, cols |-> cols, folders |-> 4 :> B]
MCNameSets == {Named(1 :> A @@ 2 :> B, 3 :> A),
               Named(1 :> B @@ 2 :> A, 3 :> A),
               Named(1 :> A @@ 2 :> A, <<>>)}
MCTwoNameSets == {Named(1 :> A @@ 2 :> B, 3 :> A),
                  Named(1 :> B @@ 2 :> A, 3 :> A)}
(* Organization 1 is renamed. *)
MCRenamedNameSets == {Named(1 :> A @@ 2 :> B, 3 :> A),
                      Named(1 :> B @@ 2 :> B, 3 :> A)}

Filed(value, place) == [state |-> "open", val |-> value, place |-> place]
MCStartVaults ==
    {[c \in Ciphers |-> Filed(v, IF c = 1 THEN Place(1, {3}, NoId)
                                          ELSE Place(2, {}, NoId))] : v \in Values}

MCQueries == {Anything, [Anything EXCEPT !.org = A], [Anything EXCEPT !.org = 2],
              [Anything EXCEPT !.col = 3], [Anything EXCEPT !.col = A],
              [Anything EXCEPT !.folder = B], [Anything EXCEPT !.org = Malformed]}
MCFewQueries == {Anything, [Anything EXCEPT !.org = A]}
MCNoQueries == {Anything}

KeyEntry(key, orgs, cols) ==
    [key |-> key, scope |-> [orgs |-> orgs, cols |-> cols]]
Env(file, inline, legacy) == [file |-> file, inline |-> inline, legacy |-> legacy]

(* Both lists; one list and another key as API_KEY; a listed key that is   *)
(* API_KEY, too; a key listed twice; lists that cannot be read; a key that *)
(* is too short; nothing.                                                  *)
MCEnvironments ==
    {Env(<<KeyEntry(k1, {A}, {}), KeyEntry(k2, {2, B}, {})>>, <<KeyEntry(k3, {1}, {})>>, NoKey),
     Env(NotSet, <<KeyEntry(k1, {}, {A}), KeyEntry(k2, {1}, {3})>>, k3),
     Env(NotSet, <<KeyEntry(k1, {A}, {})>>, k1),
     Env(NotSet, <<KeyEntry(k1, {A}, {}), KeyEntry(k1, {2}, {})>>, NoKey),
     Env(Unreadable, NotSet, k1), Env(NotSet, Unreadable, k1),
     Env(NotSet, <<KeyEntry(short, {A}, {})>>, k1), Env(NotSet, NotSet, NoKey)}
MCFewEnvironments == {Env(NotSet, <<KeyEntry(k1, {A}, {})>>, k2)}
MCMaterials == {k1, k2, k3, short}
MCLong == {k1, k2, k3}
=============================================================================
