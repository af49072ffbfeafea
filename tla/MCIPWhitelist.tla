--------------------------- MODULE MCIPWhitelist ---------------------------
(***************************************************************************)
(* Small instances of IPWhitelist.  Address 1 is a client the operator may *)
(* list, 2 one that GitHub may list; each is nobody's otherwise.           *)
(***************************************************************************)
EXTENDS IPWhitelist

CONSTANTS r1, r2

MCAddrs == 1..2
MCRequests == {r1, r2}
MCOneRequest == {r1}

List(static, github) ==
    [given |-> static # {}, static |-> static, github |-> github]
MCControls == {List(static, github) : static \in {{}, {1}}, github \in BOOLEAN}
(* ALLOWED_IPS holds separators only. *)
MCBlankControls == {[given |-> TRUE, static |-> {}, github |-> FALSE]}

MCAnswers == {{}, {2}}
=============================================================================
