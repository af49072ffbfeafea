---------------------------- MODULE MCVaultSync ----------------------------
(***************************************************************************)
(* Small instances of VaultSync.  Two ciphers show partial failures and    *)
(* answers nothing of which decrypts; one cipher is enough where a run     *)
(* spends its states on more refreshers or on liveness.                    *)
(***************************************************************************)
EXTENDS VaultSync, TLC

CONSTANTS c1, c2, v1, v2, p1, p2, r1, r2

MCCiphers == {c1, c2}
MCOneCipher == {c1}
MCValues == {v1, v2}
MCOneValue == {v1}
MCPlaces == {p1, p2}
MCOnePlace == {p1}
MCRefreshers == {r1, r2}
MCOneRefresher == {r1}

Filed(state) == [state |-> state, val |-> v1, place |-> p1]

(* Both readable; one of them locked for this account; none created yet.   *)
MCStartVaults ==
    {[c \in Ciphers |-> Filed("open")],
     [c \in Ciphers |-> IF c = c1 THEN Filed("sealed") ELSE Filed("open")],
     [c \in Ciphers |-> Filed("absent")]}

MCSymmetry == Permutations(Refreshers)
=============================================================================
