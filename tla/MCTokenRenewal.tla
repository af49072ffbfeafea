-------------------------- MODULE MCTokenRenewal --------------------------
(***************************************************************************)
(* Small instances of TokenRenewal.  The token names needed at once are    *)
(* the current access and refresh token, the token each caller holds and   *)
(* the one a renewal has been given.                                       *)
(***************************************************************************)
EXTENDS TokenRenewal, TLC

CONSTANTS w1, w2

MCCallers == {w1, w2}
MCOneCaller == {w1}

MCTokens == 1..6
MCAlways == {TRUE}
MCSometimes == BOOLEAN
MCSymmetry == Permutations(Callers)
=============================================================================
