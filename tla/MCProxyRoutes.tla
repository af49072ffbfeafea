--------------------------- MODULE MCProxyRoutes ---------------------------
(***************************************************************************)
(* Routes of up to three hops.  1 and 2 are visitors, 3 is a proxy of the  *)
(* operator that is trusted, 6 one that was forgotten, 4 and 5 are edges;  *)
(* 5 is a visitor as well, one zone proxying to another.                   *)
(***************************************************************************)
EXTENDS ProxyRoutes

MCAddrs == 1..6
MCEdgeRanges == {4, 5}
MCConfigs == {[proxies |-> {3}, named |-> n] : n \in BOOLEAN}
MCChains == {}      \* chains come from routes here
MCVisitors == {1, 3, 5}
MCHops == {3, 4, 6}
MCForgedLines ==
    {<<>>, <<<<2, Junk>>, <<3, 4>>>>}
      \cup {<<line>> : line \in UNION {[1..n -> {2, 3, 4}] : n \in 1..2}}
MCForgedHeaders == {<<>>, <<<<2>>>>, <<<<2>>, <<1>>>>, <<<<2, 1>>>>}
=============================================================================
