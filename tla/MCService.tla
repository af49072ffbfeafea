----------------------------- MODULE MCService -----------------------------
(***************************************************************************)
(* Small instances of Service: two connections and two signals.            *)
(***************************************************************************)
EXTENDS Service

CONSTANTS c1, c2

MCConnections == {c1, c2}
=============================================================================
